---- MODULE Spec2Model ----
(***************************************************************************)
(* A model of phetch's UI controller (src/ui.rs) and of the Gopher item    *)
(* types (src/gopher/type.rs).                                             *)
(*                                                                         *)
(* Strings the code inspects (urls, status text) are sequences of tokens,  *)
(* so that starts_with, contains and trim_start_matches are computed.      *)
(* The operations of UI are operators over a record holding the fields of  *)
(* the struct; the actions of Spec are the steps of main: the first open,  *)
(* startup, draw, update, shutdown.  SpinSpec runs one call of spinner()   *)
(* thread by thread.                                                       *)
(***************************************************************************)
EXTENDS Naturals, Sequences, FiniteSets

VARIABLES
  views,      \* UI.views: the opened views, oldest first
  focused,    \* UI.focused: index of the focused view, counted from 0
  dirty,      \* UI.dirty
  running,    \* UI.running
  status,     \* UI.status
  config,     \* UI.config
  out,        \* UI.out: the terminal (raw mode, screen)
  log,        \* what the last operation did outside the struct, in order
  res,        \* the Result of the last operation
  pc,         \* where main (or the UI thread inside spinner) stands
  feed,       \* which of the Feeds this run's input is drawn from
  worker,     \* the request thread of spinner()
  spin,       \* the spinner thread of spinner()
  chan        \* the mpsc channel of spinner()

vars == <<views, focused, dirty, running, status, config, out, log, res, pc,
          feed, worker, spin, chan>>

(* How many views the model lets the stack hold. *)
MaxViews == 3

--------------------------------------------------------------------------
(* gopher/type.rs *)

Types ==
  {"Text", "Menu", "CSOEntity", "Error", "Binhex", "DOSFile", "UUEncoded",
   "Search", "Telnet", "Binary", "Mirror", "GIF", "Telnet3270", "HTML",
   "Image", "PNG", "Info", "Sound", "Document"}

is_info(t) == t = "Info"

(* is_download without the last arm of the match. *)
is_download_short(t) ==
  t \in {"Binhex", "DOSFile", "UUEncoded", "Binary", "GIF", "Image", "PNG", "Sound"}

is_download(t) ==
  t \in {"Binhex", "DOSFile", "UUEncoded", "Binary", "GIF", "Image", "PNG",
         "Sound", "Document"}

is_link(t) ==
  IF t \in {"Menu", "Search", "Telnet", "HTML"} THEN TRUE
  ELSE IF is_download(t) THEN TRUE
  ELSE FALSE

is_supported(t) ==
  IF t \in {"CSOEntity", "Mirror", "Telnet3270"} THEN FALSE ELSE TRUE

(* to_char with a lower case i for Image. *)
to_char_typo(t) ==
  CASE t = "Text" -> "0"
    [] t = "Menu" -> "1"
    [] t = "CSOEntity" -> "2"
    [] t = "Error" -> "3"
    [] t = "Binhex" -> "4"
    [] t = "DOSFile" -> "5"
    [] t = "UUEncoded" -> "6"
    [] t = "Search" -> "7"
    [] t = "Telnet" -> "8"
    [] t = "Binary" -> "9"
    [] t = "Mirror" -> "+"
    [] t = "GIF" -> "g"
    [] t = "Telnet3270" -> "T"
    [] t = "HTML" -> "h"
    [] t = "Image" -> "i"
    [] t = "PNG" -> "p"
    [] t = "Info" -> "i"
    [] t = "Sound" -> "s"
    [] t = "Document" -> "d"

(* Type::to_char: always Some(c). *)
to_char(t) ==
  CASE t = "Text" -> "0"
    [] t = "Menu" -> "1"
    [] t = "CSOEntity" -> "2"
    [] t = "Error" -> "3"
    [] t = "Binhex" -> "4"
    [] t = "DOSFile" -> "5"
    [] t = "UUEncoded" -> "6"
    [] t = "Search" -> "7"
    [] t = "Telnet" -> "8"
    [] t = "Binary" -> "9"
    [] t = "Mirror" -> "+"
    [] t = "GIF" -> "g"
    [] t = "Telnet3270" -> "T"
    [] t = "HTML" -> "h"
    [] t = "Image" -> "I"
    [] t = "PNG" -> "p"
    [] t = "Info" -> "i"
    [] t = "Sound" -> "s"
    [] t = "Document" -> "d"

(* Type::from: None is the string "None". *)
TypeFrom(c) ==
  CASE c = "0" -> "Text"
    [] c = "1" -> "Menu"
    [] c = "2" -> "CSOEntity"
    [] c = "3" -> "Error"
    [] c = "4" -> "Binhex"
    [] c = "5" -> "DOSFile"
    [] c = "6" -> "UUEncoded"
    [] c = "7" -> "Search"
    [] c = "8" -> "Telnet"
    [] c = "9" -> "Binary"
    [] c = "+" -> "Mirror"
    [] c = "g" -> "GIF"
    [] c = "T" -> "Telnet3270"
    [] c = "h" -> "HTML"
    [] c = "I" -> "Image"
    [] c = "p" -> "PNG"
    [] c = "i" -> "Info"
    [] c = "s" -> "Sound"
    [] c = "d" -> "Document"
    [] OTHER -> "None"

--------------------------------------------------------------------------
(* Strings as token sequences. *)

starts_with(s, p) ==
  Len(s) >= Len(p) /\ SubSeq(s, 1, Len(p)) = p

contains(s, p) ==
  \E i \in 1..Len(s) : i + Len(p) - 1 <= Len(s) /\ SubSeq(s, i, i + Len(p) - 1) = p

RECURSIVE trim_start_matches(_, _)
trim_start_matches(s, p) ==
  IF Len(p) > 0 /\ starts_with(s, p)
  THEN trim_start_matches(SubSeq(s, Len(p) + 1, Len(s)), p)
  ELSE s

(* The urls the model opens. *)
UrlMenu     == <<"gopher", "://", "host", "/", "1", "/", "a">>
UrlText     == <<"gopher", "://", "sec", "/", "0", "/", "b">>
UrlBare     == <<"host", "/", "7", "/", "q">>
UrlBinary   == <<"gopher", "://", "host", "/", "9", "/", "f">>
UrlCSO      == <<"gopher", "://", "host", "/", "2", "/", "c">>
UrlTelnet   == <<"telnet", "://", "host">>
UrlHttp     == <<"http", "://", "site", "/", "9", "/", "f">>
UrlHtml     == <<"gopher", "://", "host", "/", "h", "/", "page">>
UrlMidSep   == <<"host", "/", "1", "/", "x", "://", "y">>
UrlHelp     == <<"gopher", "://", "phetch", "/", "1", "/", "help">>
UrlHistory  == <<"gopher", "://", "phetch", "/", "1", "/", "history">>
UrlBookmarks == <<"gopher", "://", "phetch", "/", "1", "/", "bookmarks">>
UrlNoHelp   == <<"gopher", "://", "phetch", "/", "1", "/", "nope">>
UrlHelpBin  == <<"gopher", "://", "phetch", "/", "4", "/", "help", "/", "types">>

(* gopher::type_for_url, from the spec's 4.1: the scheme is stripped, the   *)
(* host split off, and a leading type code of the path decoded; Menu when   *)
(* there is none.                                                           *)
type_for_url(url) ==
  LET rest == IF Len(url) >= 2 /\ url[2] = "://" THEN SubSeq(url, 3, Len(url)) ELSE url
  IN  IF Len(rest) >= 3 /\ rest[2] = "/" /\ TypeFrom(rest[3]) # "None"
      THEN TypeFrom(rest[3])
      ELSE "Menu"

(* help::lookup: whether the name is one it knows. *)
lookup(name) ==
  name \in {<<>>, <<"/">>, <<"home">>, <<"home", "/">>, <<"help">>, <<"help", "/">>,
            <<"history">>, <<"bookmarks">>, <<"help", "/", "keys">>,
            <<"help", "/", "nav">>, <<"help", "/", "types">>,
            <<"help", "/", "bookmarks">>, <<"help", "/", "history">>}

--------------------------------------------------------------------------
(* Results: Ok, Err(message), and a panic unwinding the calling thread. *)

Ok == [k |-> "Ok", e |-> <<>>]
Err(msg) == [k |-> "Err", e |-> msg]
Panic == [k |-> "Panic", e |-> <<>>]

(* One thing done outside the struct: a thread, a request, a subprocess. *)
emit(s, e, url, title) ==
  [s EXCEPT !.log = Append(@, [e |-> e, url |-> url, title |-> title])]

(* What the servers answer: a payload, and TLS from the hosts that speak it. *)
TlsHosts == {"sec"}

Host(url) ==
  LET rest == IF Len(url) >= 2 /\ url[2] = "://" THEN SubSeq(url, 3, Len(url)) ELSE url
  IN  IF Len(rest) >= 1 THEN rest[1] ELSE ""

(* gopher::fetch_url(url, tls, tor): net is what the network does this time. *)
fetch_url(url, tls, tor, net) ==
  CASE net = "ok"  -> [r |-> Ok, tls |-> (tls /\ ~tor /\ Host(url) \in TlsHosts),
                       body |-> <<"response of">> \o url]
    [] net = "err" -> [r |-> Err(<<"connection refused">>), tls |-> FALSE, body |-> <<>>]
    [] OTHER       -> [r |-> Panic, tls |-> FALSE, body |-> <<>>]

(* gopher::download_url(url, tls, tor). *)
download_url(url, tls, tor, net) ==
  CASE net = "ok"  -> [r |-> Ok, path |-> <<"file of">> \o url, bytes |-> 1]
    [] net = "err" -> [r |-> Err(<<"connection refused">>), path |-> <<>>, bytes |-> 0]
    [] OTHER       -> [r |-> Panic, path |-> <<>>, bytes |-> 0]

(* Menu::from and Text::from. *)
MenuFrom(url, raw, cfg, tls) ==
  [kind |-> "Menu", url |-> url, raw |-> raw, tls |-> tls, wide |-> cfg.wide]

TextFrom(url, raw, cfg, tls) ==
  [kind |-> "Text", url |-> url, raw |-> raw, tls |-> tls, wide |-> cfg.wide]

NoView == [kind |-> "None", url |-> <<>>, raw |-> <<>>, tls |-> FALSE, wide |-> FALSE]

--------------------------------------------------------------------------
(* ui.rs: the operations of UI over s, the fields of the struct. *)

(* self.views.get(self.focused) *)
has_focused(s) == s.focused < Len(s.views)
focused_view(s) == s.views[s.focused + 1]

set_status(s, text) ==
  [s EXCEPT !.status =
     [i \in 1..Len(text) |->
        IF text[i] = "\n" THEN "\\n" ELSE IF text[i] = "\r" THEN "\\r" ELSE text[i]]]

(* Vec::truncate drops the views it cuts off. *)
RECURSIVE dropped(_, _)
dropped(s, cut) ==
  IF Len(cut) = 0 THEN s
  ELSE dropped(emit(s, "drop view", cut[1].url, <<>>), SubSeq(cut, 2, Len(cut)))

(* truncate that keeps one view less than it is asked to. *)
truncate_short(s, len) ==
  IF len >= Len(s.views) THEN s
  ELSE [dropped(s, SubSeq(s.views, len, Len(s.views)))
          EXCEPT !.views = SubSeq(@, 1, len - 1)]

truncate(s, len) ==
  IF len >= Len(s.views) THEN s
  ELSE [dropped(s, SubSeq(s.views, len + 1, Len(s.views)))
          EXCEPT !.views = SubSeq(@, 1, len)]

(* add_view that keeps the forward history. *)
add_view_keeping(s, view) ==
  LET s3 == [s EXCEPT !.dirty = TRUE, !.views = Append(@, view)]
  IN  IF Len(s3.views) > 1 THEN [s3 EXCEPT !.focused = @ + 1] ELSE s3

add_view(s, view) ==
  LET s1 == [s EXCEPT !.dirty = TRUE]
      s2 == IF Len(s1.views) # 0 /\ s1.focused < Len(s1.views) - 1
            THEN truncate(s1, s1.focused + 1)
            ELSE s1
      s3 == [s2 EXCEPT !.views = Append(@, view)]
  IN  IF Len(s3.views) > 1 THEN [s3 EXCEPT !.focused = @ + 1] ELSE s3

(* confirm that takes every key read for a yes. *)
confirm_any_key(s, question, key) ==
  [s |-> [emit(s, "confirm", question, <<>>) EXCEPT !.out.cursor = TRUE],
   yes |-> key # "read fails"]

(* confirm: the question is written, one key is read. *)
confirm(s, question, key) ==
  [s |-> [emit(s, "confirm", question, <<>>) EXCEPT !.out.cursor = TRUE],
   yes |-> key \in {"\n", "y", "Y"}]

(* spinner(label, work), as the UI thread sees it: the worker is spawned   *)
(* and does its work, the spinner thread is spawned, the worker is joined, *)
(* the stop signal sent, dirty set; a panic of the worker becomes an Err.  *)
(* w is what the work returns.                                             *)
spinner(s, work, url, w) ==
  LET s1 == emit(s, "spawn worker", <<>>, <<>>)
      s2 == emit(s1, work, url, <<>>)
      s3 == emit(s2, "spawn spinner", <<>>, <<>>)
      s4 == [emit(s3, "stop spinner", <<>>, <<>>) EXCEPT !.dirty = TRUE]
  IN  [s |-> s4,
       r |-> IF w.k = "Panic" THEN Err(<<"Spinner error: ", "panic">>) ELSE Ok,
       inner |-> w]

(* download that shows what it saved in a new view. *)
download_pushing(s, url, env) ==
  LET d  == download_url(url, s.config.tls, s.config.tor, env.net)
      sp == spinner(s, "download", url, d.r)
  IN  IF sp.r.k # "Ok" THEN [s |-> sp.s, r |-> sp.r]
      ELSE IF sp.inner.k # "Ok" THEN [s |-> sp.s, r |-> sp.inner]
      ELSE [s |-> add_view(set_status(sp.s, <<"Download complete! ", "1B", " saved to ">>
                                              \o d.path),
                           TextFrom(url, d.path, s.config, FALSE)),
            r |-> Ok]

download(s, url, env) ==
  LET d  == download_url(url, s.config.tls, s.config.tor, env.net)
      sp == spinner(s, "download", url, d.r)
  IN  IF sp.r.k # "Ok" THEN [s |-> sp.s, r |-> sp.r]
      ELSE IF sp.inner.k # "Ok" THEN [s |-> sp.s, r |-> sp.inner]
      ELSE [s |-> set_status(sp.s, <<"Download complete! ", "1B", " saved to ">> \o d.path),
            r |-> Ok]

load_internal(s, url) ==
  LET name == trim_start_matches(
                trim_start_matches(url, <<"gopher", "://", "phetch", "/">>),
                <<"1", "/">>)
      s1 == emit(s, "lookup", url, <<>>)
  IN  IF lookup(name)
      THEN [s |-> s1, r |-> Ok,
            view |-> MenuFrom(url, <<"help text of">> \o name, s.config, FALSE)]
      ELSE [s |-> s1, r |-> Err(<<"phetch URL not found: ">> \o url), view |-> NoView]

(* load that shows every other type as text. *)
view_for_any(s, url, tls, body) ==
  IF type_for_url(url) \in {"Menu", "Search"}
  THEN [s |-> s, r |-> Ok, view |-> MenuFrom(url, body, s.config, tls)]
  ELSE [s |-> s, r |-> Ok, view |-> TextFrom(url, body, s.config, tls)]

view_for(s, url, tls, body) ==
  LET typ == type_for_url(url)
  IN  IF typ \in {"Menu", "Search"}
      THEN [s |-> s, r |-> Ok, view |-> MenuFrom(url, body, s.config, tls)]
      ELSE IF typ \in {"Text", "HTML"}
      THEN [s |-> s, r |-> Ok, view |-> TextFrom(url, body, s.config, tls)]
      ELSE [s |-> s, r |-> Err(<<"Unsupported Gopher Response: ", typ>>), view |-> NoView]

(* thread::spawn(move || history::save(&hname, &hurl)): the thread is      *)
(* detached; what save returns, or its panic, stays in the thread.         *)
history_save(s, title, url, env) ==
  LET s1 == emit(s, "history", url, title)
  IN  [s |-> IF env.hist = "ok" THEN s1 ELSE emit(s1, "history failed", url, title),
       r |-> IF env.hist = "ok" THEN Ok
             ELSE IF env.hist = "fails" THEN Err(<<"Permission denied">>)
             ELSE Panic]

(* load that saves the history when the page has been loaded. *)
load_history_on_success(s, title, url, env) ==
  IF starts_with(url, <<"gopher", "://", "phetch", "/">>)
  THEN load_internal(s, url)
  ELSE
    LET f == fetch_url(url, s.config.tls, s.config.tor, env.net)
        l == IF Len(s.views) = 0
             THEN LET s2 == emit(s, "fetch", url, <<>>)
                  IN  IF f.r.k # "Ok" THEN [s |-> s2, r |-> f.r, view |-> NoView]
                      ELSE view_for(s2, url, f.tls, f.body)
             ELSE LET sp == spinner(s, "fetch", url, f.r)
                  IN  IF sp.r.k # "Ok" THEN [s |-> sp.s, r |-> sp.r, view |-> NoView]
                      ELSE IF sp.inner.k # "Ok"
                      THEN [s |-> sp.s, r |-> sp.inner, view |-> NoView]
                      ELSE view_for(sp.s, url, f.tls, f.body)
    IN  IF l.r.k = "Ok" THEN [l EXCEPT !.s = history_save(l.s, title, url, env).s] ELSE l

(* load that saves the history on its own thread, with ?. *)
load_history_checked(s, title, url, env) ==
  IF starts_with(url, <<"gopher", "://", "phetch", "/">>)
  THEN load_internal(s, url)
  ELSE
    LET h  == history_save(s, title, url, env)
        s1 == h.s
        f  == fetch_url(url, s.config.tls, s.config.tor, env.net)
    IN  IF h.r.k # "Ok" THEN [s |-> s1, r |-> h.r, view |-> NoView]
        ELSE IF Len(s.views) = 0
        THEN LET s2 == emit(s1, "fetch", url, <<>>)
             IN  IF f.r.k # "Ok" THEN [s |-> s2, r |-> f.r, view |-> NoView]
                 ELSE view_for(s2, url, f.tls, f.body)
        ELSE LET sp == spinner(s1, "fetch", url, f.r)
             IN  IF sp.r.k # "Ok" THEN [s |-> sp.s, r |-> sp.r, view |-> NoView]
                 ELSE IF sp.inner.k # "Ok" THEN [s |-> sp.s, r |-> sp.inner, view |-> NoView]
                 ELSE view_for(sp.s, url, f.tls, f.body)

(* load without "don't spin on first ever request". *)
load_spinning(s, title, url, env) ==
  IF starts_with(url, <<"gopher", "://", "phetch", "/">>)
  THEN load_internal(s, url)
  ELSE
    LET s1 == history_save(s, title, url, env).s
        f  == fetch_url(url, s.config.tls, s.config.tor, env.net)
        sp == spinner(s1, "fetch", url, f.r)
    IN  IF sp.r.k # "Ok" THEN [s |-> sp.s, r |-> sp.r, view |-> NoView]
        ELSE IF sp.inner.k # "Ok" THEN [s |-> sp.s, r |-> sp.inner, view |-> NoView]
        ELSE view_for(sp.s, url, f.tls, f.body)

load(s, title, url, env) ==
  IF starts_with(url, <<"gopher", "://", "phetch", "/">>)
  THEN load_internal(s, url)
  ELSE
    LET s1 == history_save(s, title, url, env).s
        f  == fetch_url(url, s.config.tls, s.config.tor, env.net)
    IN  IF Len(s.views) = 0
        THEN LET s2 == emit(s1, "fetch", url, <<>>)
             IN  IF f.r.k # "Ok" THEN [s |-> s2, r |-> f.r, view |-> NoView]
                 ELSE view_for(s2, url, f.tls, f.body)
        ELSE LET sp == spinner(s1, "fetch", url, f.r)
             IN  IF sp.r.k # "Ok" THEN [s |-> sp.s, r |-> sp.r, view |-> NoView]
                 ELSE IF sp.inner.k # "Ok" THEN [s |-> sp.s, r |-> sp.inner, view |-> NoView]
                 ELSE view_for(sp.s, url, f.tls, f.body)

(* telnet: sub is what the subprocess does: it runs, cannot be spawned, or *)
(* cannot be waited for.                                                   *)
telnet(s, url, env) ==
  LET s1 == [emit(s, "telnet", url, <<>>) EXCEPT !.out.raw = FALSE]
  IN  IF env.sub = "spawn fails" THEN [s |-> s1, r |-> Err(<<"No such file or directory">>)]
      ELSE IF env.sub = "wait fails" THEN [s |-> s1, r |-> Err(<<"wait failed">>)]
      ELSE [s |-> [s1 EXCEPT !.out.raw = TRUE, !.dirty = TRUE], r |-> Ok]

(* utils::open_external(url) *)
open_external(s, url, env) ==
  [s |-> emit(s, "open_external", url, <<>>),
   r |-> IF env.sub = "ok" THEN Ok ELSE Err(<<"No such file or directory">>)]

(* the non-gopher URL handed to the opener without asking. *)
open_foreign_unasked(s, url, env) ==
  open_external([s EXCEPT !.dirty = TRUE], url, env)

(* open: the non-gopher URL *)
open_foreign(s, url, env) ==
  LET c == confirm([s EXCEPT !.dirty = TRUE], <<"Open external URL? ">> \o url, env.confirm)
  IN  IF c.yes THEN open_external(c.s, url, env) ELSE [s |-> c.s, r |-> Ok]

(* open: binary downloads *)
open_binary(s, url, env) ==
  LET c == confirm([s EXCEPT !.dirty = TRUE], <<"Download ">> \o url \o <<"?">>, env.confirm)
  IN  IF c.yes THEN download(c.s, url, env) ELSE [s |-> c.s, r |-> Ok]

(* open: self.load(title, url).and_then(|view| self.add_view(view)) *)
open_gopher(s, title, url, env) ==
  LET l == load(s, title, url, env)
  IN  IF l.r.k = "Ok" THEN [s |-> add_view(l.s, l.view), r |-> Ok]
      ELSE [s |-> l.s, r |-> l.r]

(* open that asks about every url with a scheme before it looks for telnet. *)
open_foreign_first(s, title, url, env) ==
  IF has_focused(s) /\ focused_view(s).url = url
  THEN [s |-> s, r |-> Ok]
  ELSE IF contains(url, <<"://">>) /\ ~starts_with(url, <<"gopher", "://">>)
  THEN open_foreign(s, url, env)
  ELSE IF starts_with(url, <<"telnet", "://">>)
  THEN telnet(s, url, env)
  ELSE IF is_download(type_for_url(url))
  THEN open_binary(s, url, env)
  ELSE open_gopher(s, title, url, env)

(* open without the "no open loops" check. *)
open_looping(s, title, url, env) ==
  IF starts_with(url, <<"telnet", "://">>)
  THEN telnet(s, url, env)
  ELSE IF contains(url, <<"://">>) /\ ~starts_with(url, <<"gopher", "://">>)
  THEN open_foreign(s, url, env)
  ELSE IF is_download(type_for_url(url))
  THEN open_binary(s, url, env)
  ELSE open_gopher(s, title, url, env)

open(s, title, url, env) ==
  IF has_focused(s) /\ focused_view(s).url = url
  THEN [s |-> s, r |-> Ok]
  ELSE IF starts_with(url, <<"telnet", "://">>)
  THEN telnet(s, url, env)
  ELSE IF contains(url, <<"://">>) /\ ~starts_with(url, <<"gopher", "://">>)
  THEN open_foreign(s, url, env)
  ELSE IF is_download(type_for_url(url))
  THEN open_binary(s, url, env)
  ELSE open_gopher(s, title, url, env)

--------------------------------------------------------------------------
(* Keys and Actions. *)

Char(c) == <<"Char", c>>
Ctrl(c) == <<"Ctrl", c>>
Enter == <<"Char", "\n">>
Esc == <<"Key", "Esc">>
Left == <<"Key", "Left">>
Right == <<"Key", "Right">>
Up == <<"Key", "Up">>
Backspace == <<"Key", "Backspace">>
ReadErr == <<"Err", "">>

Act(t) ==
  [t |-> t, key |-> <<>>, url |-> <<>>, title |-> <<>>, text |-> <<>>,
   items |-> <<>>, fun |-> ""]

ActNone == Act("None")
ActRedraw == Act("Redraw")
ActOpen(title, url) == [Act("Open") EXCEPT !.title = title, !.url = url]
ActKeypress(key) == [Act("Keypress") EXCEPT !.key = key]
ActStatus(text) == [Act("Status") EXCEPT !.text = text]
ActError(text) == [Act("Error") EXCEPT !.text = text]
ActDraw(text) == [Act("Draw") EXCEPT !.text = text]
ActPrompt(query, fun) == [Act("Prompt") EXCEPT !.text = query, !.fun = fun]
ActList(items) == [Act("List") EXCEPT !.items = items]

(* The continuations a view puts in a Prompt. *)
apply_fun(fun, response) ==
  IF fun = "open" THEN ActOpen(response, response) ELSE ActStatus(response)

(* prompt: the keys read until Enter, Esc, Ctrl-c or the end of the input. *)
RECURSIVE prompt_loop(_, _)
(* prompt whose Esc and Ctrl-c arm leaves the loop with break. *)
RECURSIVE prompt_loop_break(_, _)
prompt_loop_break(input, keys) ==
  IF Len(keys) = 0 \/ keys[1] \in {ReadErr, Esc, Ctrl("c")}
  THEN [some |-> Len(input) # 0, input |-> input, cursor |-> TRUE]
  ELSE LET key == keys[1]
           rest == SubSeq(keys, 2, Len(keys))
       IN  IF key = Enter THEN [some |-> TRUE, input |-> input, cursor |-> FALSE]
           ELSE IF key[1] = "Char" THEN prompt_loop_break(Append(input, key[2]), rest)
           ELSE IF key = Backspace \/ key = <<"Key", "Delete">>
           THEN prompt_loop_break(IF Len(input) = 0 THEN input
                                  ELSE SubSeq(input, 1, Len(input) - 1), rest)
           ELSE prompt_loop_break(input, rest)

prompt_loop(input, keys) ==
  IF Len(keys) = 0 \/ keys[1] = ReadErr
  THEN [some |-> Len(input) # 0, input |-> input, cursor |-> TRUE]
  ELSE LET key == keys[1]
           rest == SubSeq(keys, 2, Len(keys))
       IN  IF key = Enter THEN [some |-> TRUE, input |-> input, cursor |-> FALSE]
           ELSE IF key[1] = "Char" THEN prompt_loop(Append(input, key[2]), rest)
           ELSE IF key = Esc \/ key = Ctrl("c")
           THEN [some |-> FALSE, input |-> input, cursor |-> FALSE]
           ELSE IF key = Backspace \/ key = <<"Key", "Delete">>
           THEN prompt_loop(IF Len(input) = 0 THEN input
                            ELSE SubSeq(input, 1, Len(input) - 1), rest)
           ELSE prompt_loop(input, rest)

prompt(s, value, keys) ==
  LET p == prompt_loop(value, keys)
  IN  [s |-> [emit(s, "prompt", value, <<>>) EXCEPT !.out.cursor = p.cursor],
       some |-> p.some, input |-> p.input]

suspend(s) ==
  [emit(s, "SIGTSTP", <<>>, <<>>) EXCEPT !.out.alt = TRUE, !.dirty = TRUE]

(* bookmarks::save and utils::copy_to_clipboard. *)
bookmarks_save(s, url, env) ==
  [s |-> emit(s, "bookmark", url, <<>>),
   r |-> IF env.sub = "ok" THEN Ok ELSE Err(<<"Permission denied">>)]

copy_to_clipboard(s, url, env) ==
  [s |-> emit(s, "clipboard", url, <<>>),
   r |-> IF env.sub = "ok" THEN Ok ELSE Err(<<"No such file or directory">>)]

(* Action::Keypress(Key::Left) | Action::Keypress(Key::Backspace) *)
(* back that pops the views after the one it goes back to. *)
back_popping(s) ==
  IF s.focused > 0
  THEN [truncate(s, s.focused) EXCEPT !.dirty = TRUE, !.focused = @ - 1]
  ELSE s

back(s) ==
  IF s.focused > 0
  THEN [s EXCEPT !.dirty = TRUE, !.focused = @ - 1]
  ELSE s

(* forward without the bound check. *)
forward_unchecked(s) == [s EXCEPT !.dirty = TRUE, !.focused = @ + 1]

(* Action::Keypress(Key::Right): views.len() - 1 wraps to usize::MAX in a  *)
(* release build when the stack is empty (a debug build panics there).     *)
forward(s) ==
  IF Len(s.views) = 0 \/ s.focused < Len(s.views) - 1
  THEN [s EXCEPT !.dirty = TRUE, !.focused = @ + 1]
  ELSE s

(* 'r': view raw source *)
(* the raw source view without text.wide = true. *)
raw_source_narrow(s) ==
  IF has_focused(s)
  THEN LET view == focused_view(s)
       IN  add_view(s, TextFrom(view.url, view.raw, s.config, view.tls))
  ELSE s

raw_source(s) ==
  IF has_focused(s)
  THEN LET view == focused_view(s)
           text == [TextFrom(view.url, view.raw, s.config, view.tls) EXCEPT !.wide = TRUE]
       IN  add_view(s, text)
  ELSE s

(* keypress whose unknown key gives up the loop with its error. *)
keypress_esc_quits(s, key, env) ==
  CASE key = "a" -> open(s, <<"History">>, UrlHistory, env)
    [] key = "b" -> open(s, <<"Bookmarks">>, UrlBookmarks, env)
    [] key = "g" ->
         LET p == prompt(s, <<>>, env.keys)
         IN  IF p.some THEN open(p.s, p.input, p.input, env) ELSE [s |-> p.s, r |-> Ok]
    [] key = "h" -> open(s, <<"Help">>, UrlHelp, env)
    [] key = "r" -> [s |-> raw_source(s), r |-> Ok]
    [] key = "s" ->
         IF has_focused(s)
         THEN LET url == focused_view(s).url
                  b == bookmarks_save(s, url, env)
              IN  IF b.r.k = "Ok"
                  THEN [s |-> set_status(b.s, <<"Saved bookmark: ">> \o url), r |-> Ok]
                  ELSE [s |-> b.s, r |-> Err(<<"Save failed: ">> \o b.r.e)]
         ELSE [s |-> s, r |-> Ok]
    [] key = "u" ->
         IF has_focused(s)
         THEN LET current_url == focused_view(s).url
                  p == prompt(s, current_url, env.keys)
              IN  IF p.some /\ p.input # current_url
                  THEN open(p.s, p.input, p.input, env)
                  ELSE [s |-> p.s, r |-> Ok]
         ELSE [s |-> s, r |-> Ok]
    [] key = "y" ->
         IF has_focused(s)
         THEN LET url == focused_view(s).url
                  c == copy_to_clipboard(s, url, env)
              IN  IF c.r.k = "Ok"
                  THEN [s |-> set_status(c.s, <<"Copied ">> \o url \o <<" to clipboard.">>),
                        r |-> Ok]
                  ELSE c
         ELSE [s |-> s, r |-> Ok]
    [] key = "w" ->
         LET s1 == [s EXCEPT !.config.wide = ~@]
         IN  IF has_focused(s1)
             THEN [s |-> [s1 EXCEPT !.views[s1.focused + 1].wide = ~@, !.dirty = TRUE],
                   r |-> Ok]
             ELSE [s |-> s1, r |-> Ok]
    [] key = "q" -> [s |-> [s EXCEPT !.running = FALSE], r |-> Ok]
    [] OTHER -> [s |-> [s EXCEPT !.running = FALSE], r |-> Err(<<"Unknown keypress: ", key>>)]

keypress(s, key, env) ==
  CASE key = "a" -> open(s, <<"History">>, UrlHistory, env)
    [] key = "b" -> open(s, <<"Bookmarks">>, UrlBookmarks, env)
    [] key = "g" ->
         LET p == prompt(s, <<>>, env.keys)
         IN  IF p.some THEN open(p.s, p.input, p.input, env) ELSE [s |-> p.s, r |-> Ok]
    [] key = "h" -> open(s, <<"Help">>, UrlHelp, env)
    [] key = "r" -> [s |-> raw_source(s), r |-> Ok]
    [] key = "s" ->
         IF has_focused(s)
         THEN LET url == focused_view(s).url
                  b == bookmarks_save(s, url, env)
              IN  IF b.r.k = "Ok"
                  THEN [s |-> set_status(b.s, <<"Saved bookmark: ">> \o url), r |-> Ok]
                  ELSE [s |-> b.s, r |-> Err(<<"Save failed: ">> \o b.r.e)]
         ELSE [s |-> s, r |-> Ok]
    [] key = "u" ->
         IF has_focused(s)
         THEN LET current_url == focused_view(s).url
                  p == prompt(s, current_url, env.keys)
              IN  IF p.some /\ p.input # current_url
                  THEN open(p.s, p.input, p.input, env)
                  ELSE [s |-> p.s, r |-> Ok]
         ELSE [s |-> s, r |-> Ok]
    [] key = "y" ->
         IF has_focused(s)
         THEN LET url == focused_view(s).url
                  c == copy_to_clipboard(s, url, env)
              IN  IF c.r.k = "Ok"
                  THEN [s |-> set_status(c.s, <<"Copied ">> \o url \o <<" to clipboard.">>),
                        r |-> Ok]
                  ELSE c
         ELSE [s |-> s, r |-> Ok]
    [] key = "w" ->
         LET s1 == [s EXCEPT !.config.wide = ~@]
         IN  IF has_focused(s1)
             THEN [s |-> [s1 EXCEPT !.views[s1.focused + 1].wide = ~@, !.dirty = TRUE],
                   r |-> Ok]
             ELSE [s |-> s1, r |-> Ok]
    [] key = "q" -> [s |-> [s EXCEPT !.running = FALSE], r |-> Ok]
    [] OTHER -> [s |-> s, r |-> Err(<<"Unknown keypress: ", key>>)]

RECURSIVE process_action(_, _, _)
RECURSIVE process_list(_, _, _)

(* the loop over a List without the ?: every member is processed and the  *)
(* last result returned.                                                   *)
RECURSIVE process_list_through(_, _, _)
process_list_through(s, actions, env) ==
  IF Len(actions) = 0 THEN [s |-> s, r |-> Ok]
  ELSE LET first == process_action(s, actions[1], env)
       IN  IF Len(actions) = 1 THEN first
           ELSE process_list_through(first.s, SubSeq(actions, 2, Len(actions)), env)

(* for action in actions { self.process_action(action)?; } *)
process_list(s, actions, env) ==
  IF Len(actions) = 0 THEN [s |-> s, r |-> Ok]
  ELSE LET first == process_action(s, actions[1], env)
       IN  IF first.r.k # "Ok" THEN first
           ELSE process_list(first.s, SubSeq(actions, 2, Len(actions)), env)

process_action(s0, action, env) ==
  LET s == emit(s0, action.t,
                CASE action.t = "Keypress" -> action.key
                  [] action.t \in {"Status", "Error", "Draw"} -> action.text
                  [] OTHER -> action.url,
                action.title)
  IN
  CASE action.t = "List" -> process_list(s0, action.items, env)
    [] action.t = "Keypress" /\ action.key = Ctrl("c") ->
         [s |-> [s EXCEPT !.status = <<"(Use q to quit)">>], r |-> Ok]
    [] action.t = "Keypress" /\ action.key = Ctrl("z") -> [s |-> suspend(s), r |-> Ok]
    [] action.t = "Keypress" /\ action.key = Esc -> [s |-> s, r |-> Ok]
    [] action.t = "Error" -> [s |-> s, r |-> Err(action.text)]
    [] action.t = "Redraw" -> [s |-> [s EXCEPT !.dirty = TRUE], r |-> Ok]
    [] action.t = "Draw" ->
         IF env.sub = "write fails" THEN [s |-> s, r |-> Err(<<"write failed">>)]
         ELSE [s |-> s, r |-> Ok]
    [] action.t = "Status" -> [s |-> set_status(s, action.text), r |-> Ok]
    [] action.t = "Open" -> open(s, action.title, action.url, env)
    [] action.t = "Prompt" ->
         LET p == prompt(s, <<>>, env.keys)
         IN  IF p.some THEN process_action(p.s, apply_fun(action.fun, p.input), env)
             ELSE [s |-> p.s, r |-> Ok]
    [] action.t = "Keypress" /\ action.key \in {Left, Backspace} ->
         [s |-> back(s), r |-> Ok]
    [] action.t = "Keypress" /\ action.key = Right -> [s |-> forward(s), r |-> Ok]
    [] action.t = "Keypress" /\ action.key[1] \in {"Char", "Ctrl"} ->
         keypress(s, action.key[2], env)
    [] OTHER -> [s |-> s, r |-> Ok]

(* process_view_input: the focused view answers the key with an Action. *)
process_view_input(s, input) ==
  IF has_focused(s) /\ input.key # ReadErr
  THEN input.action
  ELSE ActError(<<"No Gopher page loaded.">>)

(* update that drops the error. *)
update_silent(s, input, env) ==
  LET action == process_view_input(s, input)
      s1 == IF action.t # "None" THEN [s EXCEPT !.status = <<>>] ELSE s
  IN  process_action(s1, action, env)

update(s, input, env) ==
  LET action == process_view_input(s, input)
      s1 == IF action.t # "None" THEN [s EXCEPT !.status = <<>>] ELSE s
      p  == process_action(s1, action, env)
  IN  IF p.r.k = "Err"
      THEN [s |-> set_status(p.s, <<"color::Red">> \o p.r.e \o <<"HideCursor">>), r |-> p.r]
      ELSE p

(* draw: term is what the terminal does: it answers, cannot tell its      *)
(* size, or cannot be written.                                             *)
(* draw that clears dirty before it writes. *)
draw_eager(s, term) ==
  IF s.dirty
  THEN IF term = "no size"
       THEN [s |-> s, r |-> Err(<<"fatal: Can't get terminal size.">>)]
       ELSE IF ~(Len(s.views) # 0 /\ s.focused < Len(s.views))
       THEN [s |-> s, r |-> Err(<<"fatal: No focused View.">>)]
       ELSE IF term = "write fails"
       THEN [s |-> [s EXCEPT !.dirty = FALSE], r |-> Err(<<"write failed">>)]
       ELSE [s |-> [s EXCEPT !.dirty = FALSE, !.out.cursor = FALSE], r |-> Ok]
  ELSE IF term = "write fails" THEN [s |-> s, r |-> Err(<<"write failed">>)]
       ELSE [s |-> [s EXCEPT !.out.cursor = FALSE], r |-> Ok]

draw(s, term) ==
  IF s.dirty
  THEN IF term = "no size"
       THEN [s |-> s, r |-> Err(<<"fatal: Can't get terminal size.">>)]
       ELSE IF ~(Len(s.views) # 0 /\ s.focused < Len(s.views))
       THEN [s |-> s, r |-> Err(<<"fatal: No focused View.">>)]
       ELSE IF term = "write fails" THEN [s |-> s, r |-> Err(<<"write failed">>)]
       ELSE [s |-> [s EXCEPT !.dirty = FALSE, !.out.cursor = FALSE], r |-> Ok]
  ELSE IF term = "write fails" THEN [s |-> s, r |-> Err(<<"write failed">>)]
       ELSE [s |-> [s EXCEPT !.out.cursor = FALSE], r |-> Ok]

startup(s) == [s EXCEPT !.out.raw = TRUE, !.out.alt = TRUE]

shutdown(s) == [s EXCEPT !.out.alt = FALSE]

drop(s) == [s EXCEPT !.out.cursor = TRUE]

--------------------------------------------------------------------------
(* What the model feeds the program. *)

Urls ==
  {UrlMenu, UrlText, UrlBare, UrlBinary, UrlCSO, UrlTelnet, UrlHttp, UrlMidSep,
   UrlHelp, UrlHistory, UrlBookmarks, UrlNoHelp, UrlHelpBin, UrlHtml}

ListOrder == ActList(<<ActStatus(<<"one">>), ActStatus(<<"two">>)>>)
ListFail ==
  ActList(<<ActOpen(<<"t">>, UrlMenu), ActError(<<"boom">>), ActOpen(<<"t">>, UrlText)>>)
ListNested ==
  ActList(<<ActList(<<ActRedraw, ActOpen(<<"t">>, UrlNoHelp)>>), ActOpen(<<"t">>, UrlText)>>)
ListKeys ==
  ActList(<<ActKeypress(Left), ActOpen(<<"t">>, UrlCSO), ActKeypress(Char("q"))>>)

Nav == {ActKeypress(k) : k \in {Left, Backspace, Right}}

(* A run takes its start url and its input from one feed; the feeds        *)
(* together hold every Action and every kind of url.                       *)
Feeds == {"browse", "apps", "keys", "wide", "lists"}

StartUrls(f) ==
  CASE f = "browse" -> {UrlMenu, UrlBare}
    [] f = "apps"   -> Urls
    [] f = "lists"  -> {UrlHelp}
    [] OTHER        -> {UrlMenu}

Actions(f) ==
  CASE f = "browse" ->
         Nav \cup {ActKeypress(Char("r"))}
         \cup {ActOpen(<<"t">>, u) : u \in {UrlMenu, UrlText, UrlCSO, UrlNoHelp}}
    [] f = "apps" ->
         {ActKeypress(Left), ActKeypress(Right)}
         \cup {ActOpen(<<"t">>, u) :
                 u \in {UrlTelnet, UrlHttp, UrlMidSep, UrlBinary, UrlHelpBin, UrlText}}
    [] f = "keys" ->
         {ActNone, ActRedraw, ActStatus(<<"hello", "\n">>), ActError(<<"boom">>),
          ActDraw(<<"pixels">>), ActPrompt(<<"Search: ">>, "open"),
          ActPrompt(<<"Say: ">>, "status"), ActKeypress(Left)}
         \cup {ActKeypress(k) : k \in {Ctrl("c"), Ctrl("z"), Ctrl("q"), Esc, Up}}
         \cup {ActKeypress(Char(c)) :
                 c \in {"a", "b", "g", "h", "s", "u", "y", "q", "x"}}
    [] f = "wide" ->
         {ActKeypress(k) : k \in {Char("w"), Ctrl("r"), Left, Right}}
    [] OTHER ->
         {ListOrder, ListFail, ListNested, ListKeys, ActKeypress(Right)}

Inputs(f) ==
  {[key |-> Char("k"), action |-> a] : a \in Actions(f)}
  \cup IF f = "keys" THEN {[key |-> ReadErr, action |-> ActNone]} ELSE {}

Typed(url) == [i \in 1..Len(url) |-> Char(url[i])]
Erase == [i \in 1..9 |-> Backspace]

Scripts ==
  {Erase \o Typed(UrlHelp) \o <<Enter>>,
   Erase \o Typed(UrlHttp) \o <<Enter>>,
   Erase \o Typed(UrlCSO) \o <<ReadErr>>,
   <<Char("x"), Esc>>, <<Up, Ctrl("c")>>, Erase}

DefaultEnv == [confirm |-> "n", net |-> "ok", sub |-> "ok", hist |-> "ok", keys |-> <<>>]

ConfirmKeys == {"\n", "y", "Y", "n", "Esc", "read fails"}
NetOutcomes == {"ok", "err", "panic"}
HistOutcomes == {"ok", "fails", "panic"}

(* The outcomes that matter to an open of the url. *)
OpenEnvs(url) ==
  IF starts_with(url, <<"telnet", "://">>)
  THEN {[DefaultEnv EXCEPT !.sub = x] : x \in {"ok", "spawn fails", "wait fails"}}
  ELSE IF contains(url, <<"://">>) /\ ~starts_with(url, <<"gopher", "://">>)
  THEN {[DefaultEnv EXCEPT !.confirm = c, !.sub = x] :
          c \in ConfirmKeys, x \in {"ok", "spawn fails"}}
  ELSE IF is_download(type_for_url(url))
  THEN {[DefaultEnv EXCEPT !.confirm = c, !.net = n] : c \in ConfirmKeys, n \in NetOutcomes}
  ELSE {[DefaultEnv EXCEPT !.net = n, !.hist = h] : n \in NetOutcomes, h \in HistOutcomes}

EnvsOf(action) ==
  CASE action.t = "Open" -> OpenEnvs(action.url)
    [] action.t = "List" -> {[DefaultEnv EXCEPT !.net = n] : n \in NetOutcomes}
    [] action.t = "Prompt" \/ action.key \in {Char("g"), Char("u")} ->
         UNION {{[e EXCEPT !.keys = sc] : e \in OpenEnvs(prompt_loop(<<>>, sc).input)} :
                  sc \in Scripts}
    [] action.key \in {Char("s"), Char("y")} ->
         {[DefaultEnv EXCEPT !.sub = x] : x \in {"ok", "fails"}}
    [] action.t = "Draw" -> {[DefaultEnv EXCEPT !.sub = x] : x \in {"ok", "write fails"}}
    [] OTHER -> {DefaultEnv}

--------------------------------------------------------------------------
(* main: UI::new, the first open, run. *)

Self ==
  [views |-> views, focused |-> focused, dirty |-> dirty, running |-> running,
   status |-> status, config |-> config, out |-> out, log |-> <<>>]

Becomes(s) ==
  /\ views' = s.views
  /\ focused' = s.focused
  /\ dirty' = s.dirty
  /\ running' = s.running
  /\ status' = s.status
  /\ config' = s.config
  /\ out' = s.out
  /\ log' = s.log

Idle == "idle"
NoThread == [pc |-> Idle, i |-> 0]

Init ==
  /\ views = <<>>
  /\ focused = 0
  /\ dirty = TRUE
  /\ running = TRUE
  /\ status = <<>>
  /\ feed \in Feeds
  /\ config \in {[tls |-> TRUE, tor |-> FALSE, wide |-> w] :
                   w \in IF feed = "wide" THEN BOOLEAN ELSE {FALSE}}
  /\ out = [raw |-> FALSE, alt |-> FALSE, cursor |-> TRUE]
  /\ log = <<>>
  /\ res = Ok
  /\ pc = "main"
  /\ worker = Idle
  /\ spin = NoThread
  /\ chan = Idle

(* main opens the start url before run(). *)
FirstOpen ==
  /\ pc = "main"
  /\ \E url \in StartUrls(feed) : \E env \in OpenEnvs(url) :
       \E o \in {open(Self, url, url, env)} :
           /\ Becomes(o.s)
           /\ res' = o.r
           /\ pc' = IF o.r.k = "Panic" THEN "crashed" ELSE "run"
  /\ UNCHANGED <<feed, worker, spin, chan>>

Startup ==
  /\ pc = "run"
  /\ Becomes(startup(Self))
  /\ res' = Ok
  /\ pc' = "loop"
  /\ UNCHANGED <<feed, worker, spin, chan>>

(* while self.running { self.draw()?; ... *)
Draw ==
  /\ pc = "loop"
  /\ running
  /\ \E term \in {"ok", "no size", "write fails"} :
       LET d == draw(Self, term)
       IN  /\ Becomes(d.s)
           /\ res' = d.r
           /\ pc' = IF d.r.k = "Ok" THEN "update" ELSE "returned"
  /\ UNCHANGED <<feed, worker, spin, chan>>

(* ... self.update(); } *)
Update ==
  /\ pc = "update"
  /\ \E input \in Inputs(feed) : \E env \in EnvsOf(input.action) :
       \E u \in {update(Self, input, env)} :
           /\ Len(u.s.views) <= MaxViews
           /\ Becomes(u.s)
           /\ res' = u.r
           /\ pc' = IF u.r.k = "Panic" THEN "crashed" ELSE "loop"
  /\ UNCHANGED <<feed, worker, spin, chan>>

Shutdown ==
  /\ pc = "loop"
  /\ ~running
  /\ Becomes(shutdown(Self))
  /\ res' = Ok
  /\ pc' = "returned"
  /\ UNCHANGED <<feed, worker, spin, chan>>

(* impl Drop for UI *)
Drop ==
  /\ pc = "returned"
  /\ Becomes([drop(Self) EXCEPT !.log = log])
  /\ pc' = "exit"
  /\ UNCHANGED <<res, feed, worker, spin, chan>>

Next == FirstOpen \/ Startup \/ Draw \/ Update \/ Shutdown \/ Drop

Spec == Init /\ [][Next]_vars

--------------------------------------------------------------------------
(* What the claims are stated with. *)

ActionTags ==
  {"Open", "Keypress", "Status", "Error", "Redraw", "Draw", "Prompt", "None", "List"}

(* The log without the Actions processed: what was done outside the struct. *)
Effects(l) == SelectSeq(l, LAMBDA e : e.e \notin ActionTags)
Names(l) == [i \in 1..Len(l) |-> l[i].e]
Count(l, name) == Cardinality({i \in 1..Len(l) : l[i].e = name})

TypeCodes ==
  {"0", "1", "2", "3", "4", "5", "6", "7", "8", "9", "+", "g", "T", "h", "I", "p",
   "i", "s", "d"}

(* The urls an operation is tried with: those of the feeds and one of      *)
(* every item type.                                                        *)
CheckUrls ==
  Urls \cup {<<"gopher", "://", "host", "/", c, "/", "x">> : c \in TypeCodes \cup {"z"}}

CheckEnvs ==
  {[confirm |-> c, net |-> n, sub |-> x, hist |-> "ok", keys |-> <<>>] :
     c \in {"y", "n"}, n \in NetOutcomes, x \in {"ok", "spawn fails", "wait fails"}}

TryOpen(url, env) == open(Self, <<"t">>, url, env)
TryUpdate(action, env) == update(Self, [key |-> Char("k"), action |-> action], env)

(* The rule of 4.3 that is the first to match the url. *)
RuleOf(url) ==
  IF has_focused(Self) /\ focused_view(Self).url = url THEN 1
  ELSE IF starts_with(url, <<"telnet", "://">>) THEN 2
  ELSE IF contains(url, <<"://">>) /\ ~starts_with(url, <<"gopher", "://">>) THEN 3
  ELSE IF is_download(type_for_url(url)) THEN 4
  ELSE 5

--------------------------------------------------------------------------
(* C1: branch truncation.  Before any update, for every url that the fetch *)
(* rule takes and every outcome: if the focus is not on the last view and  *)
(* the Open succeeds, the views up to the focus are kept as they were,     *)
(* every later view is gone, the new view of the url is appended and has   *)
(* the focus.                                                              *)
C1_BranchTruncation ==
  pc = "update" =>
    \A url \in CheckUrls : \A env \in CheckEnvs :
      LET u == TryUpdate(ActOpen(<<"t">>, url), env)
      IN  (focused + 1 < Len(views) /\ RuleOf(url) = 5 /\ u.r.k = "Ok") =>
            /\ Len(u.s.views) = focused + 2
            /\ SubSeq(u.s.views, 1, focused + 1) = SubSeq(views, 1, focused + 1)
            /\ u.s.views[focused + 2].url = url
            /\ u.s.focused = focused + 1

(* [A, B, C] with the focus on A became [A, D] with the focus on D. *)
C1_Witness ==
  /\ pc = "loop" /\ res = Ok
  /\ Len(log) > 0 /\ log[1].e = "Open"
  /\ Count(log, "drop view") = 2
  /\ Len(views) = 2 /\ focused = 1
  /\ views[2].url = log[1].url

(* C2: whenever the stack is not empty, the focus index is below its       *)
(* length.                                                                 *)
C2_FocusInRange == Len(views) > 0 => focused < Len(views)

(* Right moved the focus onto the last of three views. *)
C2_Witness ==
  /\ pc = "loop" /\ dirty
  /\ Len(log) = 1 /\ log[1].e = "Keypress" /\ log[1].url = Right
  /\ Len(views) >= 3 /\ focused = Len(views) - 1

(* C3: an Open of the focused view's url changes nothing but the status    *)
(* line that update clears: the views, the focus, dirty and the terminal   *)
(* are as before, nothing is asked, fetched, spawned or saved, and the     *)
(* result is Ok.                                                           *)
C3_SameUrlNoOp ==
  pc = "update" =>
    \A env \in CheckEnvs :
      LET url == focused_view(Self).url
          u == TryUpdate(ActOpen(<<"t">>, url), env)
      IN  /\ TryOpen(url, env) = [s |-> Self, r |-> Ok]
          /\ u.r = Ok
          /\ u.s.views = views /\ u.s.focused = focused
          /\ u.s.dirty = dirty /\ u.s.out = out /\ u.s.running = running
          /\ Effects(u.s.log) = <<>>

(* The focused view's url was opened again and nothing was done. *)
C3_Witness ==
  /\ pc = "loop" /\ res = Ok /\ ~dirty
  /\ Len(log) = 1 /\ log[1].e = "Open"
  /\ Len(views) = 3
  /\ log[1].url = views[focused + 1].url

(* What update puts on the status line for an error. *)
Red(e) == <<"color::Red">> \o e \o <<"HideCursor">>

Yes == {"\n", "y", "Y"}
Internal(url) == starts_with(url, <<"gopher", "://", "phetch", "/">>)
CanOpen == pc \in {"main", "update"}

(* C4: every Open is resolved by the first rule that matches and by no     *)
(* other: the same url does nothing; a telnet url runs telnet and asks     *)
(* nothing; another url with a scheme other than gopher asks the external  *)
(* question and then at most calls the opener; a download type asks the    *)
(* download question and then at most downloads; anything else is looked   *)
(* up or fetched, with no question, no telnet, no opener, no download.     *)
C4_FirstMatchingRule ==
  CanOpen =>
    \A url \in CheckUrls : \A env \in CheckEnvs :
      LET o == TryOpen(url, env)
          names == Names(o.s.log)
          k == RuleOf(url)
      IN  /\ k = 1 => o = [s |-> Self, r |-> Ok]
          /\ k = 2 => names = <<"telnet">>
          /\ k = 3 => /\ o.s.log[1].url = <<"Open external URL? ">> \o url
                      /\ names \in {<<"confirm">>, <<"confirm", "open_external">>}
          /\ k = 4 => /\ o.s.log[1].url = <<"Download ">> \o url \o <<"?">>
                      /\ names \in {<<"confirm">>,
                                    <<"confirm", "spawn worker", "download",
                                      "spawn spinner", "stop spinner">>}
          /\ k = 5 => /\ \A i \in 1..Len(names) :
                           names[i] \notin {"telnet", "confirm", "open_external", "download"}
                      /\ Count(o.s.log, "fetch") + Count(o.s.log, "lookup") = 1

(* A telnet url, which also has a scheme other than gopher, ran telnet. *)
C4_Witness ==
  /\ pc = "loop" /\ res = Ok
  /\ Names(log) = <<"Open", "telnet">>
  /\ contains(log[1].url, <<"://">>) /\ ~starts_with(log[1].url, <<"gopher", "://">>)
  /\ Len(views) > 0

(* C5: a download that is not confirmed (any key but Enter, y, Y, or no    *)
(* key read) does nothing after the question: no thread, no download, no   *)
(* history; the views and the focus stay, the Open is Ok and update shows  *)
(* no error.                                                               *)
C5_DeclinedDownload ==
  CanOpen =>
    \A url \in CheckUrls : \A key \in ConfirmKeys \ Yes : \A n \in NetOutcomes :
      LET env == [DefaultEnv EXCEPT !.confirm = key, !.net = n]
          o == TryOpen(url, env)
          u == TryUpdate(ActOpen(<<"t">>, url), env)
      IN  RuleOf(url) = 4 =>
            /\ o.r = Ok
            /\ Names(o.s.log) = <<"confirm">>
            /\ o.s.views = views /\ o.s.focused = focused
            /\ pc = "update" =>
                 /\ u.r = Ok /\ u.s.status = <<>>
                 /\ Names(Effects(u.s.log)) = <<"confirm">>
                 /\ u.s.views = views /\ u.s.focused = focused

(* The download of a binary was asked about and declined. *)
C5_Witness ==
  /\ pc = "loop" /\ res = Ok
  /\ Names(log) = <<"Open", "confirm">>
  /\ is_download(type_for_url(log[1].url))
  /\ log[2].url = <<"Download ">> \o log[1].url \o <<"?">>
  /\ Len(views) > 0 /\ status = <<>>

(* C6: for a url with a scheme that is neither telnet nor gopher, the      *)
(* opener is called exactly when the question was answered with Enter, y   *)
(* or Y, and after the question; a decline is Ok; either way nothing is    *)
(* fetched and the views and the focus stay.                               *)
C6_ExternalAfterConfirm ==
  CanOpen =>
    \A url \in CheckUrls : \A key \in ConfirmKeys : \A x \in {"ok", "spawn fails"} :
      LET env == [DefaultEnv EXCEPT !.confirm = key, !.sub = x]
          o == TryOpen(url, env)
      IN  RuleOf(url) = 3 =>
            /\ key \in Yes => Names(o.s.log) = <<"confirm", "open_external">>
            /\ key \notin Yes => Names(o.s.log) = <<"confirm">> /\ o.r = Ok
            /\ o.s.views = views /\ o.s.focused = focused

(* An http url was confirmed and handed to the opener. *)
C6_Witness ==
  /\ pc = "loop" /\ res = Ok
  /\ Names(log) = <<"Open", "confirm", "open_external">>
  /\ log[1].url = UrlHttp /\ log[3].url = UrlHttp
  /\ Len(views) > 0

Renderable == {"Menu", "Search", "Text", "HTML"}

(* C7: when the fetch rule takes a url, a type other than Menu, Search,    *)
(* Text and HTML ends in an error and leaves the views and the focus;      *)
(* after a fetch that succeeded the error is the unsupported response;     *)
(* update shows the error on the status line.  A fetch that succeeded for  *)
(* Menu or Search pushes a Menu view, for Text or HTML a Text view; no     *)
(* other view is ever pushed.                                              *)
C7_UnsupportedResponse ==
  CanOpen =>
    \A url \in CheckUrls : \A env \in CheckEnvs :
      LET o == TryOpen(url, env)
          u == TryUpdate(ActOpen(<<"t">>, url), env)
          typ == type_for_url(url)
          kind == IF typ \in {"Menu", "Search"} THEN "Menu" ELSE "Text"
      IN  RuleOf(url) = 5 =>
            /\ typ \notin Renderable =>
                 /\ o.r.k # "Ok"
                 /\ o.s.views = views /\ o.s.focused = focused
                 /\ (env.net = "ok" /\ ~Internal(url)) =>
                      o.r = Err(<<"Unsupported Gopher Response: ", typ>>)
                 /\ pc = "update" =>
                      /\ u.r.k = "Err" /\ u.s.status = Red(u.r.e)
                      /\ u.s.views = views /\ u.s.focused = focused
            /\ (typ \in Renderable /\ env.net = "ok" /\ ~Internal(url)) => o.r = Ok
            /\ o.r = Ok =>
                 /\ typ \in Renderable
                 /\ Len(o.s.views) > 0 /\ o.s.focused = Len(o.s.views) - 1
                 /\ o.s.views[Len(o.s.views)].url = url
                 /\ o.s.views[Len(o.s.views)].kind = kind

(* A CSO entry was fetched and refused; the status line says so. *)
C7_Witness ==
  /\ pc = "loop"
  /\ Len(log) > 0 /\ log[1].e = "Open" /\ log[1].url = UrlCSO
  /\ Count(log, "fetch") = 1
  /\ res = Err(<<"Unsupported Gopher Response: ", "CSOEntity">>)
  /\ status = Red(res.e)
  /\ Len(views) > 0

(* C8: when the fetch of an Open fails, one request was made, update puts  *)
(* the error on the status line, the views and the focus are as before and *)
(* running stays true; the loop goes on to the next key.                   *)
C8_NetworkFailure ==
  /\ pc = "update" =>
       \A url \in CheckUrls :
         LET env == [DefaultEnv EXCEPT !.net = "err"]
             u == TryUpdate(ActOpen(<<"t">>, url), env)
         IN  (RuleOf(url) = 5 /\ ~Internal(url)) =>
               /\ u.r = Err(<<"connection refused">>)
               /\ Count(u.s.log, "fetch") = 1
               /\ u.s.status = Red(u.r.e)
               /\ u.s.views = views /\ u.s.focused = focused
               /\ u.s.running
  /\ (pc = "loop" /\ res = Err(<<"connection refused">>)) => running

(* A fetch on the worker thread was refused: the loop is still running. *)
C8_Witness ==
  /\ pc = "loop" /\ running
  /\ res = Err(<<"connection refused">>)
  /\ Names(log) = <<"Open", "history", "spawn worker", "fetch", "spawn spinner",
                    "stop spinner">>
  /\ status = Red(res.e)
  /\ Len(views) > 1

(* The members of a List in declared order, nested Lists opened up. *)
RECURSIVE Leaves(_)
Leaves(action) ==
  IF action.t # "List" THEN <<action>>
  ELSE IF Len(action.items) = 0 THEN <<>>
  ELSE Leaves(action.items[1]) \o Leaves(ActList(Tail(action.items)))

(* One member after the other, each on the state the one before left, up   *)
(* to and including the first that fails.                                  *)
RECURSIVE InOrder(_, _, _)
InOrder(s, members, env) ==
  IF Len(members) = 0 THEN [s |-> s, r |-> Ok, done |-> 0]
  ELSE LET first == process_action(s, members[1], env)
       IN  IF first.r.k # "Ok" THEN [s |-> first.s, r |-> first.r, done |-> 1]
           ELSE LET rest == InOrder(first.s, Tail(members), env)
                IN  [rest EXCEPT !.done = @ + 1]

Members ==
  {ActError(<<"boom">>), ActStatus(<<"one">>), ActKeypress(Left),
   ActOpen(<<"t">>, UrlCSO), ActOpen(<<"t">>, UrlText)}

CheckLists ==
  {ListOrder, ListFail, ListNested, ListKeys, ActList(<<>>)}
  \cup {ActList(<<a, b>>) : a, b \in Members}
  \cup {ActList(<<ActList(<<a, b>>), c>>) : a, b, c \in Members}
  \cup {ActList(<<a, ActList(<<b, c>>)>>) : a, b, c \in Members}

Processed(l) == SelectSeq(l, LAMBDA e : e.e \in ActionTags)

(* C9: a List, nested or not, does what its members do one after the other *)
(* in declared order up to the first that fails: the members processed are *)
(* the first ones of the List, in order; the state is the one the members  *)
(* before the failing one built and the failing one left; no member after  *)
(* it is processed; its error is the result, and update puts that error on *)
(* the status line.                                                        *)
C9_ListInOrder ==
  (pc = "update" /\ feed = "lists") =>
    \A list \in CheckLists : \A n \in NetOutcomes :
      LET env == [DefaultEnv EXCEPT !.net = n]
          members == Leaves(list)
          seq == InOrder(Self, members, env)
          p == process_action(Self, list, env)
          u == TryUpdate(list, env)
          seen == Processed(p.s.log)
      IN  /\ p.s = seq.s /\ p.r = seq.r
          /\ Len(seen) = seq.done
          /\ \A i \in 1..Len(seen) :
               /\ seen[i].e = members[i].t
               /\ members[i].t = "Open" => seen[i].url = members[i].url
               /\ i < Len(seen) => process_action(Self, members[i], env).r.k # "Err"
          /\ p.r.k = "Ok" => Len(seen) = Len(members)
          /\ p.r.k = "Err" =>
               /\ u.r = p.r
               /\ u.s.status = Red(p.r.e)
               /\ u.s.views = seq.s.views /\ u.s.focused = seq.s.focused

(* A List of an Open, an Error and an Open: the first view was pushed, the *)
(* error is on the status line, the second Open never happened.            *)
C9_Witness ==
  /\ pc = "loop" /\ feed = "lists"
  /\ Names(Processed(log)) = <<"Open", "Error">>
  /\ log[1].url = UrlMenu
  /\ res = Err(<<"boom">>) /\ status = Red(res.e)
  /\ Len(views) > 1 /\ views[focused + 1].url = UrlMenu
  /\ Count(log, "fetch") = 1

--------------------------------------------------------------------------
(* One call of spinner(), thread by thread.  pc is the statement the UI    *)
(* thread is at, worker the request thread, spin the spinner thread with   *)
(* its loop index, chan the channel from tx to rx.                         *)

MaxFrames == 3

Event(e, url) == [e |-> e, url |-> url, title |-> <<>>]
Finished == {"ok", "err", "panic"}
Sent == Count(log, "stop spinner") > 0
Frames == Count(log, "frame")

(* The loop of the spinner thread has no end of its own: of the frames and *)
(* sleeps before the stop signal the log keeps the first MaxFrames, of     *)
(* those after it every one.                                               *)
Logged(name) == Sent \/ Count(log, name) < MaxFrames

(* The UI after the first open, startup and one draw: spinner() is only    *)
(* called with a view on the stack.                                        *)
Browsing ==
  LET new == [views |-> <<>>, focused |-> 0, dirty |-> TRUE, running |-> TRUE,
              status |-> <<>>, config |-> [tls |-> TRUE, tor |-> FALSE, wide |-> FALSE],
              out |-> [raw |-> FALSE, alt |-> FALSE, cursor |-> TRUE], log |-> <<>>]
      opened == open(new, UrlMenu, UrlMenu, DefaultEnv).s
  IN  [draw(startup(opened), "ok").s EXCEPT !.log = <<>>]

SpinInit ==
  /\ views = Browsing.views
  /\ focused = Browsing.focused
  /\ dirty = Browsing.dirty
  /\ running = Browsing.running
  /\ status = Browsing.status
  /\ config = Browsing.config
  /\ out = Browsing.out
  /\ log = <<>>
  /\ res = Ok
  /\ feed \in {"fetch", "download"}
  /\ pc = "spinner"
  /\ worker = Idle
  /\ spin = NoThread
  /\ chan = Idle

Rest == <<views, focused, running, status, config, out, feed>>

(* let req = thread::spawn(work); *)
SpawnWork ==
  /\ pc = "spinner"
  /\ worker' = "running"
  /\ log' = Append(log, Event("spawn worker", <<>>))
  /\ pc' = "channel"
  /\ UNCHANGED <<Rest, dirty, res, spin, chan>>

(* the closure work: the request ends with a response, an error or a panic. *)
Work ==
  /\ worker = "running"
  /\ \E outcome \in Finished :
       /\ worker' = outcome
       /\ log' = Append(log, Event(feed, <<outcome>>))
  /\ UNCHANGED <<Rest, dirty, res, pc, spin, chan>>

(* let (tx, rx) = mpsc::channel(); ... thread::spawn(move || loop { ... }); *)
SpawnSpinner ==
  /\ pc = "channel"
  /\ chan' = "open"
  /\ spin' = [pc |-> "try_recv", i |-> 0]
  /\ log' = Append(log, Event("spawn spinner", <<>>))
  /\ pc' = "join"
  /\ UNCHANGED <<Rest, dirty, res, worker>>

(* try_recv moved out of the for: the signal is looked for once in four    *)
(* frames.                                                                 *)
TryRecvOuter ==
  /\ spin.pc = "try_recv"
  /\ IF chan = "sent" /\ spin.i = 0
     THEN /\ spin' = [spin EXCEPT !.pc = "returned"]
          /\ chan' = "closed"
     ELSE /\ spin' = [spin EXCEPT !.pc = "print"]
          /\ chan' = chan
  /\ UNCHANGED <<Rest, dirty, res, pc, worker, log>>

(* if rx.try_recv().is_ok() { return; }  The thread ends and rx is dropped. *)
TryRecv ==
  /\ spin.pc = "try_recv"
  /\ IF chan = "sent"
     THEN /\ spin' = [spin EXCEPT !.pc = "returned"]
          /\ chan' = "closed"
     ELSE /\ spin' = [spin EXCEPT !.pc = "print"]
          /\ chan' = chan
  /\ UNCHANGED <<Rest, dirty, res, pc, worker, log>>

(* print!(...); stdout().flush().expect(ERR_STDOUT);  A write that fails    *)
(* panics the thread, and the unwinding drops rx.                          *)
PrintFrame ==
  /\ spin.pc = "print"
  /\ \/ /\ spin' = [spin EXCEPT !.pc = "sleep"]
        /\ log' = IF Logged("frame") THEN Append(log, Event("frame", <<spin.i>>)) ELSE log
        /\ chan' = chan
     \/ /\ spin' = [spin EXCEPT !.pc = "panicked"]
        /\ log' = Append(log, Event("spinner panic", <<>>))
        /\ chan' = "closed"
  /\ UNCHANGED <<Rest, dirty, res, pc, worker>>

(* thread::sleep(Duration::from_millis(500)); then the next i of 0..=3, and *)
(* after 3 the loop starts the for again.                                  *)
Sleep ==
  /\ spin.pc = "sleep"
  /\ spin' = [pc |-> "try_recv", i |-> (spin.i + 1) % 4]
  /\ log' = IF Logged("sleep") THEN Append(log, Event("sleep", <<spin.i>>)) ELSE log
  /\ UNCHANGED <<Rest, dirty, res, pc, worker, chan>>

(* let result = req.join(); *)
Join ==
  /\ pc = "join"
  /\ worker \in Finished
  /\ log' = Append(log, Event("join", <<worker>>))
  /\ pc' = "send"
  /\ UNCHANGED <<Rest, dirty, res, worker, spin, chan>>

(* The join result tried with ? before the send: a worker panic returns    *)
(* the error and the signal is never sent.                                 *)
SendAfterTry ==
  /\ pc = "send"
  /\ IF worker = "panic"
     THEN /\ pc' = "loop"
          /\ res' = Err(<<"Spinner error: ", "panic">>)
          /\ UNCHANGED <<chan, log>>
     ELSE /\ chan' = IF chan = "closed" THEN chan ELSE "sent"
          /\ log' = IF chan = "closed" THEN log ELSE Append(log, Event("stop spinner", <<>>))
          /\ pc' = IF chan = "closed" THEN "crashed" ELSE "dirty"
          /\ res' = IF chan = "closed" THEN Panic ELSE res
  /\ UNCHANGED <<Rest, dirty, worker, spin>>

(* tx.send(true).expect("Fatal Error in Spinner channel.");  send is an Err *)
(* when rx is gone.                                                        *)
Send ==
  /\ pc = "send"
  /\ IF chan = "closed"
     THEN /\ pc' = "crashed"
          /\ res' = Panic
          /\ UNCHANGED <<chan, log>>
     ELSE /\ chan' = "sent"
          /\ log' = Append(log, Event("stop spinner", <<>>))
          /\ pc' = "dirty"
          /\ res' = res
  /\ UNCHANGED <<Rest, dirty, worker, spin>>

(* self.dirty = true; result.map_err(|e| error!("Spinner error: {:?}", e)) *)
Return ==
  /\ pc = "dirty"
  /\ dirty' = TRUE
  /\ res' = spinner(Self, feed, <<>>, [k |-> IF worker = "panic" THEN "Panic" ELSE "Ok"]).r
  /\ log' = Append(log, Event("return", <<>>))
  /\ pc' = "loop"
  /\ UNCHANGED <<Rest, worker, spin, chan>>

(* Back in run(): the next turn of the loop draws the screen and the       *)
(* status line.                                                            *)
DrawAfter ==
  /\ pc = "loop"
  /\ \E d \in {draw(Self, "ok")} :
       /\ dirty' = d.s.dirty
       /\ out' = d.s.out
  /\ log' = Append(log, Event("draw", <<>>))
  /\ pc' = "update"
  /\ UNCHANGED <<views, focused, running, status, config, feed, res, worker, spin, chan>>

SpinNext ==
  SpawnWork \/ Work \/ SpawnSpinner \/ TryRecv \/ PrintFrame \/ Sleep \/ Join \/ Send
  \/ Return \/ DrawAfter

SpinSpec == SpinInit /\ [][SpinNext]_vars

(* The spinner thread is scheduled: a step it can take is taken.  Nothing  *)
(* is asked of the worker, whose request may never end.                    *)
FairSpinSpec == SpinSpec /\ WF_vars(TryRecv) /\ WF_vars(PrintFrame) /\ WF_vars(Sleep)

(* Where the first event of a name is in the log; 0 when there is none. *)
Pos(name) ==
  IF Count(log, name) = 0 THEN 0
  ELSE CHOOSE i \in 1..Len(log) :
         log[i].e = name /\ \A j \in 1..(i - 1) : log[j].e # name

Then(a, b) == Pos(a) > 0 /\ Pos(a) < Pos(b)
SpinnerError == Err(<<"Spinner error: ", "panic">>)

(* What holds of every run of spinner(), whatever the spinner thread does: *)
(* the signal is sent only after the worker has finished and the join has  *)
(* returned; the join needs the worker only; after the join the send is    *)
(* the next statement whatever the worker's outcome; spinner() returns     *)
(* only after the signal, with dirty set, and with the Spinner error for a *)
(* worker that panicked.                                                   *)
Ordered ==
  /\ Sent => /\ worker \in Finished
             /\ Then(feed, "join") /\ Then("join", "stop spinner")
  /\ (pc = "join" /\ worker \in Finished) => ENABLED Join
  /\ (pc = "join" /\ worker \notin Finished) => ~ENABLED Join
  /\ pc = "send" => worker \in Finished /\ ENABLED Send
  /\ pc = "loop" =>
       /\ Then("stop spinner", "return")
       /\ dirty
       /\ res = IF worker = "panic" THEN SpinnerError ELSE Ok

(* C10 as stated: worker finishes, then the signal is sent, then spinner() *)
(* returns; the controller waits for the worker only; the signal is sent   *)
(* on every path past the join, and a worker panic gives the Spinner error *)
(* and no crash.                                                           *)
C10_SentOnEveryPath ==
  /\ Ordered
  /\ pc \in {"dirty", "loop", "crashed"} => Sent
  /\ pc # "crashed"

(* C10, amended: the order and the join are as stated, and the send is     *)
(* executed on every path past the join.  It fails, and the controller     *)
(* panics instead of returning, exactly when the spinner thread has died   *)
(* on a write to stdout before the send; in every other run the signal is  *)
(* sent and spinner() returns, with the Spinner error for a worker panic.  *)
C10_SpinnerOrder ==
  /\ Ordered
  /\ pc \in {"dirty", "loop"} => Sent
  /\ pc = "crashed" =>
       /\ ~Sent /\ spin.pc = "panicked" /\ chan = "closed"
       /\ Then(feed, "join") /\ Pos("spinner panic") > 0
  /\ (pc = "send" /\ spin.pc # "panicked") => chan = "open"

(* The worker panicked; spinner() has returned the error after the signal  *)
(* while the spinner thread is still about to draw a frame.                *)
C10_Witness ==
  /\ pc = "loop" /\ worker = "panic" /\ res = SpinnerError
  /\ Then(feed, "stop spinner") /\ Then("stop spinner", "return")
  /\ spin.pc = "print" /\ chan = "sent"
  /\ dirty

(* How many events of a name the log has after the stop signal. *)
After(name) ==
  Cardinality({i \in (Pos("stop spinner") + 1)..Len(log) : log[i].e = name})

Ended == {"returned", "panicked"}

(* After the signal the spinner thread draws at most one more frame and    *)
(* sleeps at most one more interval.                                       *)
OneMoreIteration == Sent => After("frame") <= 1 /\ After("sleep") <= 1

(* C11 as stated: once the signal is sent the spinner thread ends, after   *)
(* at most one more frame and one more sleep; while the worker has not     *)
(* completed the spinner thread does not end.                              *)
C11_EndsOnlyAfterWorker ==
  /\ [](OneMoreIteration)
  /\ [](worker \notin Finished => spin.pc \notin Ended)
  /\ (Sent ~> spin.pc \in Ended)

(* C11, amended: once the signal is sent the spinner thread ends, after at *)
(* most one more frame and one more sleep; it returns only after the       *)
(* worker has completed and the signal was sent; before that it ends only  *)
(* by a panic on a write to stdout that failed.                            *)
C11_SpinnerBounded ==
  /\ [](OneMoreIteration)
  /\ [](spin.pc = "returned" => worker \in Finished /\ Sent)
  /\ []((spin.pc = "panicked" /\ ~Sent) => Pos("spinner panic") > 0)
  /\ (Sent ~> spin.pc \in Ended)

(* The signal came when the thread was about to draw: one more frame, one  *)
(* more sleep, then it returned.                                           *)
C11_Witness ==
  /\ spin.pc = "returned" /\ Sent
  /\ After("frame") = 1 /\ After("sleep") = 1
  /\ worker \in Finished

(* C12: the spinner thread writes no frame once spinner() has returned,    *)
(* and so none after the controller has drawn the screen again: the two    *)
(* threads never both write to the terminal.                               *)
C12_NoFrameAfterReturn ==
  \A i \in 1..Len(log) :
    log[i].e = "frame" => /\ Pos("return") = 0 \/ i < Pos("return")
                          /\ Pos("draw") = 0 \/ i < Pos("draw")

(* Every request in the log was made by a worker thread under the spinner. *)
Wrapped(l) ==
  \A i \in 1..Len(l) :
    l[i].e = "fetch" => /\ 1 < i /\ i < Len(l)
                        /\ l[i - 1].e = "spawn worker"
                        /\ l[i + 1].e = "spawn spinner"

(* No worker thread and no spinner thread in the log. *)
Bare(l) == Count(l, "spawn worker") = 0 /\ Count(l, "spawn spinner") = 0

C14_TelnetRestoresRawMode ==
  (pc = "loop" /\ Count(log, "telnet") > 0) => out.raw

(* C15: when run() has returned after startup(), by quit or with the error *)
(* of a draw, and the UI is dropped, the terminal shows the main screen    *)
(* and the cursor.                                                         *)
C15_TerminalRestored ==
  pc = "exit" => ~out.alt /\ out.cursor

--------------------------------------------------------------------------
(* The item types by themselves: feed is a character and a Type, and each  *)
(* step applies one function of gopher/type.rs to them.                    *)

Chars == TypeCodes \cup {"z", "G", "t", "-", "", " "}

TypeInit ==
  /\ views = <<>>
  /\ focused = 0
  /\ dirty = TRUE
  /\ running = TRUE
  /\ status = <<>>
  /\ config = [tls |-> TRUE, tor |-> FALSE, wide |-> FALSE]
  /\ out = [raw |-> FALSE, alt |-> FALSE, cursor |-> TRUE]
  /\ log = <<>>
  /\ res = Ok
  /\ feed \in [c : Chars, t : Types]
  /\ pc = "type"
  /\ worker = Idle
  /\ spin = NoThread
  /\ chan = Idle

TypeRest ==
  <<views, focused, dirty, running, status, config, out, log, feed, worker, spin, chan>>

(* Type::from(c) *)
From ==
  /\ pc = "type"
  /\ res' = [k |-> "from", t |-> TypeFrom(feed.c)]
  /\ pc' = "decoded"
  /\ UNCHANGED TypeRest

(* Type::from(c).and_then(|t| t.to_char()) *)
FromToChar ==
  /\ pc = "decoded"
  /\ res.t # "None"
  /\ res' = [k |-> "from, to_char", c |-> to_char(res.t)]
  /\ pc' = "round"
  /\ UNCHANGED TypeRest

(* t.to_char() *)
ToChar ==
  /\ pc = "type"
  /\ res' = [k |-> "to_char", c |-> to_char(feed.t)]
  /\ pc' = "encoded"
  /\ UNCHANGED TypeRest

(* t.to_char().and_then(Type::from) *)
ToCharFrom ==
  /\ pc = "encoded"
  /\ res' = [k |-> "to_char, from", t |-> TypeFrom(res.c)]
  /\ pc' = "round"
  /\ UNCHANGED TypeRest

(* t.is_info(), t.is_link(), t.is_download(), t.is_supported() *)
Classify ==
  /\ pc = "type"
  /\ res' = [k |-> "classes", info |-> is_info(feed.t), link |-> is_link(feed.t),
             download |-> is_download(feed.t), supported |-> is_supported(feed.t)]
  /\ pc' = "classified"
  /\ UNCHANGED TypeRest

TypeNext == From \/ FromToChar \/ ToChar \/ ToCharFrom \/ Classify

TypeSpec == TypeInit /\ [][TypeNext]_vars

(* C16: every one of the nineteen type characters decodes to a Type whose  *)
(* to_char is the character again; every Type encodes to a character that  *)
(* decodes to the Type again; every other character decodes to None.       *)
C16_TypeRoundTrip ==
  /\ pc = "decoded" => /\ res.t \in Types \cup {"None"}
                       /\ res.t # "None" <=> feed.c \in TypeCodes
  /\ (pc = "round" /\ res.k = "from, to_char") => res.c = feed.c
  /\ pc = "encoded" => res.c \in TypeCodes
  /\ (pc = "round" /\ res.k = "to_char, from") => res.t = feed.t

(* The character I was decoded and encoded again. *)
C16_Witness ==
  pc = "round" /\ res.k = "from, to_char" /\ feed.c = "I" /\ res.c = "I"

Downloads ==
  {"Binhex", "DOSFile", "UUEncoded", "Binary", "GIF", "Image", "PNG", "Sound",
   "Document"}

(* C17: is_download holds of the nine download types and of no other;      *)
(* is_link of Menu, Search, Telnet, HTML and the download types; is_info   *)
(* of Info only; is_supported of all but CSOEntity, Mirror, Telnet3270; so *)
(* no type is info and link, and every download type is a link.            *)
C17_TypeClasses ==
  pc = "classified" =>
    /\ res.download <=> feed.t \in Downloads
    /\ res.link <=> feed.t \in {"Menu", "Search", "Telnet", "HTML"} \cup Downloads
    /\ res.info <=> feed.t = "Info"
    /\ res.supported <=> feed.t \notin {"CSOEntity", "Mirror", "Telnet3270"}
    /\ ~(res.info /\ res.link)
    /\ res.download => res.link
    /\ feed.t \in {"Text", "Error", "Info"} => ~res.link

(* Document was classified: a download, a link, supported, not info. *)
C17_Witness ==
  /\ pc = "classified" /\ feed.t = "Document"
  /\ res.download /\ res.link /\ res.supported /\ ~res.info

--------------------------------------------------------------------------
(* C18: every Open of a url gopher://phetch/... is resolved against        *)
(* help::lookup and not against the network: it starts no fetch and no     *)
(* download, spawns no worker and no spinner thread and records no         *)
(* history; a path lookup knows pushes a Menu view, and one it does not    *)
(* know gives the error 'phetch URL not found' and leaves the views and    *)
(* the focus as they were.                                                 *)
Network == {"fetch", "download", "spawn worker", "spawn spinner", "history"}
Offline(l) == \A i \in 1..Len(l) : l[i].e \notin Network

C18_InternalNamespace ==
  /\ CanOpen =>
       \A url \in CheckUrls, env \in CheckEnvs :
         LET o == TryOpen(url, env)
         IN  (Internal(url) /\ RuleOf(url) # 1) =>
               /\ Offline(o.s.log)
               /\ Count(o.s.log, "lookup") = 1
               /\ \/ /\ o.r = Ok
                     /\ Len(o.s.views) > 0
                     /\ o.s.views[Len(o.s.views)].kind = "Menu"
                     /\ o.s.views[Len(o.s.views)].url = url
                  \/ /\ o.r = Err(<<"phetch URL not found: ">> \o url)
                     /\ o.s.views = views /\ o.s.focused = focused
  /\ (pc = "loop" /\ Len(log) > 0 /\ log[1].e = "Open" /\ Internal(log[1].url)) =>
       Offline(log)

--------------------------------------------------------------------------
(* C19: Prompt(query, continuation). When the line is confirmed with       *)
(* Enter the string typed is given to the continuation once and the        *)
(* Action it returns is processed, with the same result, views, focus and  *)
(* status as that Action processed directly, an error going to the status  *)
(* line; when the line is cancelled with Esc or Ctrl-c no Action is        *)
(* processed and the views and the focus stay as they were.                *)

(* Key scripts with the line they leave, written out by hand. *)
Lines ==
  {[keys |-> Typed(UrlHelp) \o <<Enter>>, line |-> UrlHelp, ends |-> "Enter"],
   [keys |-> Erase \o Typed(UrlText) \o <<Enter, Char("x")>>, line |-> UrlText,
    ends |-> "Enter"],
   [keys |-> Typed(UrlNoHelp) \o <<Char("x"), Char("y"), Backspace, <<"Key", "Delete">>, Enter>>,
    line |-> UrlNoHelp, ends |-> "Enter"],
   [keys |-> <<Up>> \o Typed(UrlCSO) \o <<Enter, Esc>>, line |-> UrlCSO, ends |-> "Enter"],
   [keys |-> <<Char("x"), Enter>>, line |-> <<"x">>, ends |-> "Enter"],
   [keys |-> Typed(UrlHelp) \o <<Esc, Enter>>, line |-> UrlHelp, ends |-> "Esc"],
   [keys |-> <<Esc>>, line |-> <<>>, ends |-> "Esc"],
   [keys |-> Typed(UrlText) \o <<Ctrl("c"), Enter>>, line |-> UrlText, ends |-> "Ctrl-c"],
   [keys |-> <<Char("x"), Backspace, Ctrl("c")>>, line |-> <<>>, ends |-> "Ctrl-c"]}

Funs == {"open", "status"}
Dispatched(l) == Cardinality({i \in 1..Len(l) : l[i].e \in ActionTags})

C19_PromptContinuation ==
  /\ pc = "update" =>
       \A ln \in Lines, fun \in Funs, n \in NetOutcomes :
         LET env == [DefaultEnv EXCEPT !.keys = ln.keys, !.net = n]
             u == TryUpdate(ActPrompt(<<"Search: ">>, fun), env)
             a == apply_fun(fun, ln.line)
             d == TryUpdate(a, env)
         IN  /\ Names(u.s.log)[1] = "Prompt" /\ Names(u.s.log)[2] = "prompt"
             /\ Count(u.s.log, "prompt") = 1
             /\ ln.ends = "Enter" =>
                  /\ Dispatched(u.s.log) = 2
                  /\ u.s.log[3] = d.s.log[1]
                  /\ u.s.log[3].e = a.t
                  /\ u.s.log[3].url = ln.line
                  /\ SubSeq(u.s.log, 3, Len(u.s.log)) = d.s.log
                  /\ u.r = d.r
                  /\ u.s.views = d.s.views /\ u.s.focused = d.s.focused
                  /\ u.s.status = d.s.status
                  /\ u.r.k = "Err" => u.s.status = Red(u.r.e)
             /\ ln.ends \in {"Esc", "Ctrl-c"} =>
                  /\ Names(u.s.log) = <<"Prompt", "prompt">>
                  /\ u.r = Ok
                  /\ u.s.views = views /\ u.s.focused = focused
  /\ (pc = "loop" /\ Len(log) > 0 /\ log[1].e = "Prompt") => Dispatched(log) \in {1, 2}

C19_Witness ==
  /\ pc = "loop" /\ res = Ok
  /\ Names(log) = <<"Prompt", "prompt", "Open", "lookup">>
  /\ log[3].url = UrlHelp
  /\ views[Len(views)].url = UrlHelp

--------------------------------------------------------------------------
(* C20: the save-bookmark key 's' returns the error 'Save failed' (shown   *)
(* on the status line) whenever bookmarks::save fails and sets the status  *)
(* 'Saved bookmark' only when it succeeded; what history::save does never  *)
(* changes the result of the Open, the status line or the views; and       *)
(* neither write changes the views or the focus.                           *)
SaveKey == ActKeypress(Char("s"))
Saved(url) == <<"Saved bookmark: ">> \o url
SaveFailed == Err(<<"Save failed: ", "Permission denied">>)

C20_BookmarkAndHistory ==
  /\ pc = "update" =>
       /\ \A x \in {"ok", "fails"} :
            LET u == TryUpdate(SaveKey, [DefaultEnv EXCEPT !.sub = x])
                url == focused_view(Self).url
            IN  /\ has_focused(Self)
                /\ Names(u.s.log) = <<"Keypress", "bookmark">>
                /\ u.s.log[2].url = url
                /\ u.s.views = views /\ u.s.focused = focused
                /\ x = "fails" => u.r = SaveFailed /\ u.s.status = Red(SaveFailed.e)
                /\ x = "ok" => u.r = Ok /\ u.s.status = Saved(url)
       /\ \A url \in CheckUrls, n \in NetOutcomes, h \in HistOutcomes \ {"ok"} :
            LET env == [DefaultEnv EXCEPT !.confirm = "y", !.net = n]
                a == TryUpdate(ActOpen(<<"t">>, url), env)
                b == TryUpdate(ActOpen(<<"t">>, url), [env EXCEPT !.hist = h])
            IN  /\ b.r = a.r
                /\ b.s.status = a.s.status
                /\ b.s.views = a.s.views /\ b.s.focused = a.s.focused
                /\ Count(b.s.log, "history") = Count(a.s.log, "history")
                /\ (h # "ok" /\ Count(a.s.log, "history") = 1) =>
                     Count(b.s.log, "history failed") = 1
  /\ (pc = "loop" /\ Count(log, "bookmark") > 0) =>
       \/ res = Ok /\ status = Saved(log[2].url)
       \/ res = SaveFailed /\ status = Red(SaveFailed.e)
  /\ (pc = "loop" /\ Count(log, "history failed") > 0 /\ res.k = "Err") =>
       res.e \in {<<"connection refused">>, <<"Spinner error: ", "panic">>}
                 \cup {<<"Unsupported Gopher Response: ">> \o <<ty>> : ty \in Types}

(* A page was opened and pushed although its history write failed. *)
C20_Witness ==
  /\ pc = "loop" /\ res = Ok /\ status = <<>>
  /\ Count(log, "history failed") = 1
  /\ log[1].e = "Open"
  /\ Len(views) > 1 /\ focused = Len(views) - 1
  /\ views[Len(views)].url = log[1].url

--------------------------------------------------------------------------
(* C21: Left and Backspace take one from the focus when it is above 0 and  *)
(* do nothing at 0; Right adds one when the focus is not on the last view  *)
(* and does nothing there; none of them adds, removes or reorders views,   *)
(* so back and then forward from a focus above 0 is on the same view.      *)
BackKeys == {Left, Backspace}

C21_BackForward ==
  pc = "update" =>
    /\ Len(views) > 0
    /\ \A k \in BackKeys :
         LET u == TryUpdate(ActKeypress(k), DefaultEnv)
         IN  /\ u.r = Ok
             /\ u.s.views = views
             /\ u.s.focused = IF focused > 0 THEN focused - 1 ELSE 0
             /\ focused > 0 =>
                  LET f == update(u.s, [key |-> Char("k"), action |-> ActKeypress(Right)],
                                  DefaultEnv)
                  IN  /\ f.s.views = views /\ f.s.focused = focused
                      /\ focused_view(f.s) = focused_view(Self)
    /\ LET u == TryUpdate(ActKeypress(Right), DefaultEnv)
       IN  /\ u.r = Ok
           /\ u.s.views = views
           /\ u.s.focused = IF focused # Len(views) - 1 THEN focused + 1 ELSE focused

(* Back was pressed on the second of three views. *)
C21_Witness ==
  /\ pc = "loop" /\ res = Ok
  /\ Len(log) = 1 /\ log[1].e = "Keypress" /\ log[1].url \in BackKeys
  /\ Len(views) = 3 /\ focused = 0 /\ dirty

--------------------------------------------------------------------------
(* C22: the running flag becomes false exactly when a Keypress of q or     *)
(* Ctrl-q is processed; from then on no input is read, and the one step    *)
(* run() takes is shutdown and the return of Ok. Nothing else processed    *)
(* clears the flag: Ctrl-c sets the status '(Use q to quit)', and an       *)
(* error (a failed Open, an unknown key) leaves running true.              *)
QuitKeys == {Char("q"), Ctrl("q")}
Quit(l) == \E i \in 1..Len(l) : l[i].e = "Keypress" /\ l[i].url \in QuitKeys

QuitLists ==
  {ActList(<<ActKeypress(Char("q")), ActOpen(<<"t">>, UrlText)>>),
   ActList(<<ActStatus(<<"bye">>), ActKeypress(Ctrl("q"))>>),
   ActList(<<ActError(<<"boom">>), ActKeypress(Char("q"))>>)}

QuitInputs ==
  UNION {Inputs(f) : f \in Feeds}
  \cup {[key |-> Char("k"), action |-> a] :
          a \in QuitLists \cup {ActKeypress(Ctrl("q")), ActKeypress(Char("Q"))}}

QuitEnvs ==
  {[DefaultEnv EXCEPT !.confirm = "y", !.net = n, !.keys = sc] :
     n \in {"ok", "err"}, sc \in {<<>>, <<Char("q"), Enter>>}}

QuitOnlyByKey ==
  pc = "update" =>
    /\ running
    /\ \A input \in QuitInputs, env \in QuitEnvs :
         LET u == update(Self, input, env)
         IN  u.s.running <=> ~Quit(u.s.log)
    /\ LET u == TryUpdate(ActOpen(<<"t">>, UrlCSO), [DefaultEnv EXCEPT !.net = "err"])
       IN  u.s.running /\ u.r = Err(<<"connection refused">>)
    /\ LET u == TryUpdate(ActKeypress(Ctrl("c")), DefaultEnv)
       IN  u.s.running /\ u.r = Ok /\ u.s.status = <<"(Use q to quit)">>
    /\ LET u == TryUpdate(ActKeypress(Char("x")), DefaultEnv)
       IN  u.s.running /\ u.r = Err(<<"Unknown keypress: ", "x">>)

Stopped == ~running => pc \in {"loop", "returned", "exit"} /\ res = Ok

--------------------------------------------------------------------------
(* C23: the key r on a focused view V pushes a Text view with V's url,     *)
(* V's raw payload as it is, wide mode on and V's TLS flag; the views      *)
(* after V are dropped and the focus is on the new view. The stack then    *)
(* holds two neighbours with one url, and an Open of that url does nothing.*)
RawKeys == {Char("r"), Ctrl("r")}

C23_RawSource ==
  pc = "update" =>
    \A k \in RawKeys :
      LET V == focused_view(Self)
          u == TryUpdate(ActKeypress(k), DefaultEnv)
          again == update([u.s EXCEPT !.log = <<>>],
                         [key |-> Char("k"), action |-> ActOpen(<<"t">>, V.url)],
                          [DefaultEnv EXCEPT !.confirm = "y"])
      IN  /\ u.r = Ok
          /\ u.s.views =
               Append(SubSeq(views, 1, focused + 1),
                      [kind |-> "Text", url |-> V.url, raw |-> V.raw, tls |-> V.tls,
                       wide |-> TRUE])
          /\ u.s.focused = focused + 1
          /\ u.s.dirty
          /\ Count(u.s.log, "drop view") = Len(views) - (focused + 1)
          /\ u.s.views[focused + 1] = V
          /\ again.r = Ok
          /\ again.s.views = u.s.views /\ again.s.focused = u.s.focused
          /\ Names(again.s.log) = <<"Open">>

(* r was pressed on a menu that had a view after it. *)
C23_Witness ==
  /\ pc = "loop" /\ res = Ok
  /\ Len(log) > 0 /\ log[1].e = "Keypress" /\ log[1].url \in RawKeys
  /\ Count(log, "drop view") = 1
  /\ Len(views) = 2 /\ focused = 1
  /\ views[1].kind = "Menu" /\ views[2].kind = "Text" /\ views[2].wide
  /\ views[2].url = views[1].url /\ views[2].raw = views[1].raw

--------------------------------------------------------------------------
(* C24: an Open that is resolved by the same-url, the telnet, the          *)
(* external-url or the download rule leaves the views and the focus as     *)
(* they were, whatever the answer to its question and whether it works or  *)
(* fails; the sequence of views changes only by an Open of the fetch rule  *)
(* or by the raw-source key.                                               *)
Stack(vs) == [i \in 1..Len(vs) |-> [kind |-> vs[i].kind, url |-> vs[i].url,
                                    raw |-> vs[i].raw, tls |-> vs[i].tls]]
Loaded(l) == Count(l, "fetch") + Count(l, "lookup") > 0
RawPressed(l) == \E i \in 1..Len(l) : l[i].e = "Keypress" /\ l[i].url \in RawKeys

C24_StackFrame ==
  /\ CanOpen =>
       \A url \in CheckUrls : \A env \in OpenEnvs(url) :
         LET o == TryOpen(url, env)
         IN  RuleOf(url) \in 1..4 =>
               /\ o.s.views = views /\ o.s.focused = focused
               /\ ~Loaded(o.s.log)
  /\ pc = "update" =>
       \A input \in QuitInputs, env \in QuitEnvs :
         LET u == update(Self, input, env)
         IN  Stack(u.s.views) # Stack(views) => Loaded(u.s.log) \/ RawPressed(u.s.log)

(* A download was confirmed and failed on the network. *)
C24_Witness ==
  /\ pc = "loop" /\ res = Err(<<"connection refused">>)
  /\ Names(log) = <<"Open", "confirm", "spawn worker", "download", "spawn spinner",
                    "stop spinner">>
  /\ is_download(type_for_url(log[1].url))
  /\ status = Red(res.e)
  /\ Len(views) > 0

--------------------------------------------------------------------------
(* C25: when update() has changed the views or the focus (a push, a        *)
(* truncation, back, forward, the raw-source view) or the wide mode of the *)
(* focused view, dirty is true when it returns; update() never clears      *)
(* dirty; only draw() does, and only when its full render was written.     *)
Terms == {"ok", "no size", "write fails"}

RedrawScheduled ==
  /\ pc = "update" =>
       \A input \in QuitInputs, env \in QuitEnvs, d \in BOOLEAN :
         LET u == update([Self EXCEPT !.dirty = d], input, env)
         IN  /\ (u.s.views # views \/ u.s.focused # focused) => u.s.dirty
             /\ d => u.s.dirty
  /\ pc = "loop" =>
       \A term \in Terms :
         LET d == draw(Self, term)
         IN  /\ d.r.k # "Ok" => d.s.dirty = dirty
             /\ d.r.k = "Ok" => ~d.s.dirty

C25_RedrawScheduling ==
  /\ [](RedrawScheduled)
  /\ [][(dirty /\ ~dirty') => (pc = "loop" /\ pc' = "update" /\ res' = Ok)]_vars
  /\ [][(pc = "update" /\ (views' # views \/ focused' # focused)) => dirty']_vars

(* w was pressed: the focused view is wide now and the screen is dirty. *)
C25_Witness ==
  /\ pc = "loop" /\ res = Ok /\ dirty
  /\ Len(log) = 1 /\ log[1].e = "Keypress" /\ log[1].url = Char("w")
  /\ config.wide /\ focused_view(Self).wide
  /\ focused < Len(views) - 1

--------------------------------------------------------------------------
(* C26: a stack that is not empty never becomes empty; no step removes or  *)
(* replaces the view at the focus or one before it; the stack gets shorter *)
(* only by the truncation in add_view, which the push follows at once, so  *)
(* that after add_view the focused view is the last one.                   *)
Kept(before, after, n) ==
  /\ Len(after) >= n
  /\ Stack(SubSeq(after, 1, n)) = Stack(SubSeq(before, 1, n))

SomeViews ==
  {MenuFrom(UrlMenu, <<"m">>, config, FALSE), TextFrom(UrlText, <<"t">>, config, TRUE)}

AddViewPushesLast ==
  CanOpen =>
    \A v \in SomeViews :
      LET a == add_view(Self, v)
          n == IF Len(views) = 0 THEN 0 ELSE focused + 1
      IN  /\ a.views = Append(SubSeq(views, 1, n), v)
          /\ a.focused = Len(a.views) - 1
          /\ focused_view(a) = v
          /\ Count(a.log, "drop view") = Len(views) - n

C26_NeverEmptyAgain ==
  /\ [](AddViewPushesLast)
  /\ [][Len(views) > 0 =>
          /\ Len(views') > 0
          /\ Kept(views, views', focused + 1)
          /\ Len(views') < Len(views) =>
               /\ Count(log', "drop view") = Len(views) - (focused + 1)
               /\ Len(views') = focused + 2
               /\ focused' = Len(views') - 1
               /\ Loaded(log') \/ RawPressed(log')]_vars

(* [A, B, C] with the focus on B became [A, B, raw B] with the focus last. *)
C26_Witness ==
  /\ pc = "loop" /\ res = Ok
  /\ Len(log) > 0 /\ log[1].e = "Keypress" /\ log[1].url \in RawKeys
  /\ Count(log, "drop view") = 1
  /\ Len(views) = 3 /\ focused = 2
  /\ views[3].url = views[2].url /\ views[1].url # views[2].url

--------------------------------------------------------------------------
(* C27: every Open that comes to the fetch rule with a url outside         *)
(* gopher://phetch/ starts one history save of its title and url before    *)
(* the request is made, so the entry is written also when the request      *)
(* fails or the type is not supported and no view is pushed; an Open of    *)
(* the same url, of telnet, of an external url, of a download or of an     *)
(* internal url starts none.                                               *)
PosIn(l, name) ==
  IF Count(l, name) = 0 THEN 0
  ELSE CHOOSE i \in 1..Len(l) : l[i].e = name /\ \A j \in 1..(i - 1) : l[j].e # name

Titles == {<<"t">>, <<"a", " ", "title">>}

C27_HistoryAtRequest ==
  /\ CanOpen =>
       \A url \in CheckUrls, title \in Titles : \A env \in OpenEnvs(url) :
         LET o == open(Self, title, url, env)
             l == o.s.log
         IN  IF RuleOf(url) = 5 /\ ~Internal(url)
             THEN /\ Count(l, "history") = 1
                  /\ l[PosIn(l, "history")].url = url
                  /\ l[PosIn(l, "history")].title = title
                  /\ Count(l, "fetch") = 1
                  /\ PosIn(l, "history") < PosIn(l, "fetch")
                  /\ o.r.k # "Ok" => o.s.views = views
             ELSE Count(l, "history") = 0
  /\ (pc = "loop" /\ Len(log) > 0 /\ log[1].e = "Open" /\ Count(log, "fetch") > 0) =>
       /\ log[2].e = "history" /\ log[2].url = log[1].url /\ log[2].title = log[1].title
       /\ Pos("history") < Pos("fetch")

(* A request failed or gave an unsupported type, and its history entry was *)
(* written before it.                                                      *)
C27_Witness ==
  /\ pc = "loop" /\ res.k = "Err"
  /\ Len(log) > 2 /\ log[1].e = "Open"
  /\ log[2] = [e |-> "history", url |-> log[1].url, title |-> log[1].title]
  /\ Count(log, "fetch") = 1 /\ Pos("history") < Pos("fetch")
  /\ \A i \in 1..Len(views) : views[i].url # log[1].url


====
